---- MODULE Spec2Model ----
(***************************************************************************)
(* Offline-first storage and synchronisation of the kompass-app:           *)
(*   HybridDataService (src/services/dataService.ts) with its two          *)
(*   backends and its in-memory sync queue, and SyncService                *)
(*   (src/services/syncService.ts).                                        *)
(*                                                                         *)
(* Granularity: one step is one browser task, i.e. the completion of one   *)
(* awaited call into the remote store together with the synchronous code   *)
(* and the already-resolved local-storage awaits that follow it, up to the *)
(* next call into the remote store.                                        *)
(***************************************************************************)
EXTENDS Integers, Sequences, FiniteSets, TLC

\* ------------------------------------------------------------------ bounds
\* caller-issued calls into HybridDataService that may be in flight at once
MaxCalls == 2
\* wall clock: every setData call advances it, so it also bounds the writes
MaxClock == 4
\* concurrently running processSyncQueue loops
MaxDrains == 2

Owners == {"u1", "u2"}
\* no authenticated session
NoUser == "none"
\* an ownerId rejected by the userId validation (empty string)
InvalidUserId == ""
\* data kinds whose table handler stores the record whole
Kinds == {"goals", "points"}
Null == "null"
\* payloads; each owner writes its own, so that a value names its owner
ValuesOf(u) == IF u = "u1" THEN {"u1A", "u1B"} ELSE {"u2A", "u2B"}
Values == UNION {ValuesOf(u) : u \in Owners}
Procs == 1..MaxCalls
DrainIds == 1..MaxDrains
\* performSync runs that may be in flight at once
MaxRuns == 2
RunIds == 1..MaxRuns
\* SyncSettings.conflictResolution
Policies == {"latest_timestamp", "local_wins", "remote_wins", "manual"}

\* the syncInterval of the default settings, in milliseconds
defaultSyncInterval == 300000

\* the most intervals at once whose handle has been overwritten
MaxOrphans == 2
\* the dataTypes that syncAllDataTypes walks, in one batch
SyncTypes == {"goals"}
\* new Date(0): the timestamp of a key that has none
Epoch == 0

VARIABLES
    session,     \* supabase.auth session user id, or NoUser
    isOnline,    \* HybridDataService.isOnline / SyncService.isOnline
    remoteUp,    \* whether calls into the remote store succeed
    auditUp,     \* whether inserts into the audit_logs table succeed
    now,         \* Date.now()
    local,       \* storageService: key -> value (localStorage)
    remote,      \* Supabase tables: owner -> kind -> value
    syncQueue,   \* HybridDataService.syncQueue, in Map insertion order
    ops,         \* caller-issued getData/getDataSafe/setData calls in flight
    last,        \* the call that returned last, with what it returned
    drains,      \* processSyncQueue loops in flight
    localTs,     \* storageService: `${key}_timestamp` -> timestamp, 0 when absent
    offlineChanges,    \* the remote offline_changes_queue table, by queued_at
    syncSettings,      \* SyncService.syncSettings
    syncStatus,        \* SyncService.syncStatus
    syncTimer,         \* SyncService.syncTimer is set
    orphanTimers,      \* intervals still running whose handle syncTimer no longer holds
    pendingConflicts,  \* SyncService.pendingConflicts: key -> conflict
    runs,        \* performSync runs in flight
    resolves,    \* resolveConflictManually calls in flight
    errorLog,    \* ErrorHandlingService.errorLog, in Map insertion order
    savedLog,    \* storageService: the 'error_log' entry, in key order
    retryQueue,  \* ErrorHandlingService.retryQueue, in Map insertion order
    handling,    \* the handleError call in flight
    retryLoops,  \* processRetryQueue loops in flight
    handled      \* what the handleError call that returned last returned

\* the state of SyncService and of what only SyncService reads
syncVars == <<localTs, offlineChanges, syncSettings, syncStatus, syncTimer, orphanTimers,
              pendingConflicts, runs, resolves>>

\* the state of ErrorHandlingService; its isOnline follows the same window
\* events as the other two services' and is the variable isOnline
errVars == <<errorLog, savedLog, retryQueue, handling, retryLoops, handled>>

vars == <<session, isOnline, remoteUp, auditUp, now, local, remote, syncQueue, ops, last, drains,
          syncVars, errVars>>

\* ------------------------------------------------------------ backends
\* mutant: logDataAccess rethrows whatever it caught
logDataAccess_RethrowAll(userId, up) ==
    IF session # userId THEN "mismatch"
    ELSE IF ~up THEN "audit"
    ELSE "none"

\* SupabaseStorageBackend.logDataAccess: the error it throws, "none" when it
\* returns. A failed insert into audit_logs is caught and not rethrown; only
\* the session mismatch is
logDataAccess(userId, up) ==
    LET caught == IF session # userId THEN "mismatch"
                  ELSE IF ~up THEN "audit"
                  ELSE "none"
    IN IF caught = "mismatch" THEN caught ELSE "none"

\* SupabaseStorageBackend.logDataAccess + the table call: the outcome of one
\* call into the remote store for userId
SupabaseOutcome(userId) ==
    LET thrown == logDataAccess(userId, auditUp)
    IN IF thrown # "none" THEN thrown
       ELSE IF ~remoteUp THEN "network"
       ELSE "ok"

\* SupabaseStorageBackend.get for an accepted call
SupabaseGet(r, key, userId) == r[userId][key]

\* SupabaseStorageBackend.set for an accepted call
SupabaseSet(r, key, data, userId) == [r EXCEPT ![userId][key] = data]

\* SupabaseStorageBackend.remove for an accepted call: the rows are marked
\* deleted, and get selects the rows that are not
SupabaseRemove(r, key, userId) == [r EXCEPT ![userId][key] = Null]

\* LocalStorageBackend.remove: the userId is not used
LocalRemove(l, key, userId) == [l EXCEPT ![key] = Null]

\* LocalStorageBackend.get: the userId is not used
LocalGet(l, key, userId) == l[key]

\* LocalStorageBackend.set: the userId is not used
LocalSet(l, key, data, userId) == [l EXCEPT ![key] = data]

\* ------------------------------------------------------------ sync queue
QueueHas(q, key, userId) == \E i \in DOMAIN q : q[i].key = key /\ q[i].userId = userId

\* mutant: the queue as an array that is pushed to
queueForSync_Push(q, key, data, userId, t) ==
    Append(q, [key |-> key, data |-> data, userId |-> userId, timestamp |-> t])

\* HybridDataService.queueForSync: Map.set keeps the position of a key that
\* is already present and replaces its value
queueForSync(q, key, data, userId, t) ==
    LET e == [key |-> key, data |-> data, userId |-> userId, timestamp |-> t]
    IN IF QueueHas(q, key, userId)
       THEN [i \in DOMAIN q |->
               IF q[i].key = key /\ q[i].userId = userId THEN e ELSE q[i]]
       ELSE Append(q, e)

\* mutant: a delivered entry is left in the queue
QueueDelete_Keep(q, key, userId) == q

\* Map.delete(queueKey)
QueueDelete(q, key, userId) ==
    SelectSeq(q, LAMBDA e : ~(e.key = key /\ e.userId = userId))

\* ------------------------------------------------------------ calls
IdleOp == [type |-> "none", key |-> "goals", data |-> Null, userId |-> NoUser]

NoCall == [type |-> "none", key |-> "goals", data |-> Null, userId |-> NoUser,
           res |-> Null, raised |-> FALSE, err |-> "none", totalSynced |-> 0]

\* what call o hands back to its caller; totalSynced is SyncResult.totalSynced
\* of a performSync that returned, 0 for every other call
Returned(o, res, raised, err) ==
    [type |-> o.type, key |-> o.key, data |-> o.data, userId |-> o.userId,
     res |-> res, raised |-> raised, err |-> err, totalSynced |-> 0]

IdleDrain == [active |-> FALSE, entries |-> <<>>, idx |-> 1]

\* an absent entry of SyncService.pendingConflicts
NoConflict == [present |-> FALSE, localData |-> Null, remoteData |-> Null,
               localTimestamp |-> Epoch, remoteTimestamp |-> Epoch,
               conflictType |-> "none"]

\* syncDataType(kind) of a run: not started
KindIdle == [pc |-> "none", localData |-> Null, localTimestamp |-> Epoch,
             remoteData |-> Null, remoteTimestamp |-> Epoch,
             data |-> Null, stamp |-> "none", conflict |-> FALSE]

\* syncDataType(kind) of a run: returned { success: true }
KindDone == [KindIdle EXCEPT !.pc = "done"]

\* no performSync run in this slot
IdleRun == [pc |-> "idle", userId |-> NoUser, changes |-> <<>>, idx |-> 1,
            kinds |-> [k \in SyncTypes |-> KindIdle]]

\* no resolveConflictManually call in flight
IdleResolve == [pc |-> "idle", key |-> "goals", resolution |-> "none",
                data |-> Null, userId |-> NoUser, conflict |-> NoConflict,
                timestamp |-> Epoch]

\* ------------------------------------------------------------ error handling
\* handleError calls explored
MaxErrors == 2
\* processRetryQueue loops that may be in flight at once
MaxLoops == 2
LoopIds == 1..MaxLoops

\* ErrorCategory
ErrorCategories == {"network", "authentication", "encryption", "storage", "validation",
                    "sync", "compliance", "user_action", "system"}
\* ErrorSeverity
ErrorSeverities == {"low", "medium", "high", "critical"}

\* ErrorHandlingService.maxLogSize
maxLogSize == 1000

\* ErrorHandlingService.fallbackStrategies as initializeFallbackStrategies
\* fills it, without the handlers
fallbackStrategies ==
    << [name |-> "network_retry", category |-> "network",
        canRetry |-> TRUE, maxRetries |-> 3, priority |-> 1],
       [name |-> "offline_mode", category |-> "network",
        canRetry |-> FALSE, maxRetries |-> 0, priority |-> 2],
       [name |-> "token_refresh", category |-> "authentication",
        canRetry |-> TRUE, maxRetries |-> 2, priority |-> 1],
       [name |-> "reauth_required", category |-> "authentication",
        canRetry |-> FALSE, maxRetries |-> 0, priority |-> 2],
       [name |-> "encryption_key_regenerate", category |-> "encryption",
        canRetry |-> TRUE, maxRetries |-> 1, priority |-> 1],
       [name |-> "encryption_fallback", category |-> "encryption",
        canRetry |-> FALSE, maxRetries |-> 0, priority |-> 2],
       [name |-> "storage_cleanup", category |-> "storage",
        canRetry |-> TRUE, maxRetries |-> 1, priority |-> 1],
       [name |-> "localStorage_fallback", category |-> "storage",
        canRetry |-> FALSE, maxRetries |-> 0, priority |-> 2],
       [name |-> "partial_sync", category |-> "sync",
        canRetry |-> TRUE, maxRetries |-> 2, priority |-> 1],
       [name |-> "queue_for_later", category |-> "sync",
        canRetry |-> FALSE, maxRetries |-> 0, priority |-> 2] >>

\* the handlers that call code which can throw: the caller's retryFunction,
\* supabase.auth.refreshSession and encryptionService; the others only build
\* a result (cleanupStorageSpace catches its own errors)
MayThrow(name) == name \in {"network_retry", "token_refresh", "encryption_key_regenerate"}

StrategyNamed(name) ==
    fallbackStrategies[CHOOSE i \in DOMAIN fallbackStrategies : fallbackStrategies[i].name = name]

\* Array.prototype.sort((a, b) => a.priority - b.priority), which is stable:
\* x goes behind the strategies whose priority is not greater
InsertByPriority(sorted, x) ==
    LET before == SelectSeq(sorted, LAMBDA y : y.priority <= x.priority)
        after == SelectSeq(sorted, LAMBDA y : y.priority > x.priority)
    IN before \o <<x>> \o after

RECURSIVE SortByPriority(_)
SortByPriority(strategies) ==
    IF strategies = <<>> THEN <<>>
    ELSE InsertByPriority(SortByPriority(SubSeq(strategies, 1, Len(strategies) - 1)),
                          strategies[Len(strategies)])

\* mutant: every registered strategy applies, whatever its category
StrategiesFor_AnyCategory(category) == SortByPriority(fallbackStrategies)

\* handleError: the strategies of the category, by ascending priority
StrategiesFor(category) ==
    SortByPriority(SelectSeq(fallbackStrategies, LAMBDA y : y.category = category))

\* categoryRetries[category] || 1: a 0 in the table counts as missing
getMaxRetriesForCategory(category) ==
    LET categoryRetries == [c \in ErrorCategories |->
            CASE c = "network" -> 3 [] c = "authentication" -> 2 [] c = "encryption" -> 1
              [] c = "storage" -> 2 [] c = "validation" -> 1 [] c = "sync" -> 3
              [] c = "compliance" -> 1 [] c = "user_action" -> 0 [] c = "system" -> 2]
    IN IF categoryRetries[category] = 0 THEN 1 ELSE categoryRetries[category]

\* createErrorInfo: the ErrorInfo of a new error
createErrorInfo(id, category, severity) ==
    [id |-> id, category |-> category, severity |-> severity, resolved |-> FALSE,
     retryCount |-> 0, maxRetries |-> getMaxRetriesForCategory(category)]

\* generateErrorId: an id that no logged error has
generateErrorId(log) == IF log = <<>> THEN 1 ELSE log[Len(log)].id + 1

\* the entries saveErrorLog keeps
savedLogSize == 100

\* saveErrorLog: the last savedLogSize entries of the log, as stored under
\* 'error_log'; loadErrorLog reads them back in the same order
saveErrorLog(log) ==
    IF Len(log) > savedLogSize THEN SubSeq(log, Len(log) - savedLogSize + 1, Len(log)) ELSE log

\* mutant: the rotation drops the newest entries
logError_DropNewest(log, errorInfo) ==
    LET added == Append(log, errorInfo)
    IN IF Len(added) > maxLogSize
       THEN SubSeq(added, 1, maxLogSize)
       ELSE added

\* logError: the error is added, and the entries with the oldest timestamps
\* are dropped once the log holds more than maxLogSize. Every entry is
\* stamped and added in one task, so the log is in timestamp order, and the
\* sort, which is stable, leaves it so; an id stands for its timestamp
logError(log, errorInfo) ==
    LET added == Append(log, errorInfo)
    IN IF Len(added) > maxLogSize
       THEN SubSeq(added, Len(added) - maxLogSize + 1, Len(added))
       ELSE added

LogHas(log, id) == \E i \in DOMAIN log : log[i].id = id

\* errorLog.get(id)
InfoOf(log, id) == log[CHOOSE i \in DOMAIN log : log[i].id = id]

\* updateErrorInfo: errorLog.set(errorInfo.id, errorInfo) keeps the position
\* of an id that the log has
updateErrorInfo(log, errorInfo) ==
    IF LogHas(log, errorInfo.id)
    THEN [i \in DOMAIN log |-> IF log[i].id = errorInfo.id THEN errorInfo ELSE log[i]]
    ELSE Append(log, errorInfo)

RetryHas(q, id) == \E i \in DOMAIN q : q[i].id = id

\* retryQueue.set(errorInfo.id, { error, strategy }); the entry shares the
\* ErrorInfo object with the log, so it is kept by id
RetrySet(q, id, strategy) ==
    IF RetryHas(q, id)
    THEN [i \in DOMAIN q |-> IF q[i].id = id THEN [id |-> id, strategy |-> strategy] ELSE q[i]]
    ELSE Append(q, [id |-> id, strategy |-> strategy])

\* retryQueue.delete(errorId)
RetryDelete(q, id) == SelectSeq(q, LAMBDA e : e.id # id)

\* generateRecoveryActions: the names of the actions offered
generateRecoveryActions(errorInfo) ==
    (CASE errorInfo.category = "encryption" -> <<"reset_encryption">>
       [] errorInfo.category = "storage" -> <<"clear_cache">>
       [] errorInfo.category = "sync" -> <<"force_resync">>
       [] errorInfo.category = "network" -> <<"retry_connection">>
       [] OTHER -> <<>>) \o <<"restart_app">>

\* no handleError call has returned yet
NoResult == [id |-> 0, resolved |-> FALSE, strategy |-> "none", invoked |-> <<>>,
             raised |-> FALSE, error |-> FALSE, critical |-> FALSE, message |-> FALSE,
             canRetry |-> FALSE, silent |-> FALSE, recoveryActions |-> <<>>]

\* mutant: the default branch of the switch is taken for every severity
escalateError_Default(errorInfo) ==
    [NoResult EXCEPT !.id = errorInfo.id, !.error = TRUE, !.message = TRUE]

\* escalateError / handleCriticalError: the fields of the object returned
escalateError(errorInfo) ==
    CASE errorInfo.severity = "critical" ->
           [NoResult EXCEPT !.id = errorInfo.id, !.error = TRUE, !.critical = TRUE,
                            !.message = TRUE,
                            !.recoveryActions = generateRecoveryActions(errorInfo)]
      [] errorInfo.severity = "high" ->
           [NoResult EXCEPT !.id = errorInfo.id, !.error = TRUE, !.message = TRUE,
                            !.canRetry = TRUE]
      [] errorInfo.severity = "medium" ->
           [NoResult EXCEPT !.id = errorInfo.id, !.error = TRUE, !.message = TRUE,
                            !.silent = TRUE]
      [] errorInfo.severity = "low" ->
           [NoResult EXCEPT !.id = errorInfo.id, !.error = TRUE, !.silent = TRUE]
      [] OTHER ->
           [NoResult EXCEPT !.id = errorInfo.id, !.error = TRUE, !.message = TRUE]

\* no handleError call in flight
IdleHandling == [pc |-> "idle", id |-> 0, strategies |-> <<>>, idx |-> 1, invoked |-> <<>>]

\* no processRetryQueue loop in this slot
IdleLoop == [active |-> FALSE, entries |-> <<>>, idx |-> 1]

FreeLoop == CHOOSE l \in LoopIds : ~retryLoops[l].active

\* ErrorHandlingService.processRetryQueue, up to its first handler call
processRetryQueue(online, q, loops) ==
    IF ~online \/ Len(q) = 0 THEN loops
    ELSE [loops EXCEPT ![FreeLoop] = [active |-> TRUE, entries |-> q, idx |-> 1]]

\* the services right after construction, for a session, a connectivity and
\* stored sync settings: nothing cached, nothing queued, no call in flight
Constructed(sessions, settings, queued) ==
    /\ session \in sessions
    /\ isOnline \in BOOLEAN
    /\ remoteUp = TRUE
    /\ auditUp = TRUE
    /\ now = 1
    /\ local = [k \in Kinds |-> Null]
    /\ remote = [u \in Owners |-> [k \in Kinds |-> Null]]
    /\ syncQueue = <<>>
    /\ ops = [p \in Procs |-> IdleOp]
    /\ last = NoCall
    /\ drains = [d \in DrainIds |-> IdleDrain]
    /\ localTs = [k \in Kinds |-> Epoch]
    /\ offlineChanges \in queued
    /\ syncSettings \in settings
    /\ syncStatus = "idle"
    /\ syncTimer = (syncSettings.autoSync /\ isOnline)
    /\ orphanTimers = 0
    /\ pendingConflicts = [k \in SyncTypes |-> NoConflict]
    /\ runs = [r \in RunIds |-> IdleRun]
    /\ resolves = IdleResolve
    /\ errorLog = <<>>
    /\ savedLog = <<>>
    /\ retryQueue = <<>>
    /\ handling = IdleHandling
    /\ retryLoops = [l \in LoopIds |-> IdleLoop]
    /\ handled = NoResult

\* automatic synchronisation switched off in the stored settings
Init ==
    Constructed(Owners \cup {NoUser},
                {[autoSync |-> FALSE, syncInterval |-> defaultSyncInterval, conflictResolution |-> "latest_timestamp"]},
                {<<>>})

\* mutant: an offline write is queued but not written to the local cache
SetDataCall_QueueOnly(p, key, data, userId) ==
    /\ ops[p].type = "none"
    /\ now < MaxClock
    /\ now' = now + 1
    /\ LET o == [type |-> "set", key |-> key, data |-> data, userId |-> userId]
       IN IF isOnline
          THEN /\ ops' = [ops EXCEPT ![p] = o]
               /\ UNCHANGED <<syncQueue, last>>
          ELSE /\ syncQueue' = queueForSync(syncQueue, key, data, userId, now')
               /\ last' = Returned(o, Null, FALSE, "offline")
               /\ UNCHANGED ops
    /\ UNCHANGED <<session, isOnline, remoteUp, auditUp, local, remote, drains, syncVars, errVars>>

\* mutant: the local cache is written before the remote write is issued
SetDataCall_LocalFirst(p, key, data, userId) ==
    /\ ops[p].type = "none"
    /\ now < MaxClock
    /\ now' = now + 1
    /\ local' = LocalSet(local, key, data, userId)
    /\ LET o == [type |-> "set", key |-> key, data |-> data, userId |-> userId]
       IN IF isOnline
          THEN /\ ops' = [ops EXCEPT ![p] = o]
               /\ UNCHANGED <<syncQueue, last>>
          ELSE /\ syncQueue' = queueForSync(syncQueue, key, data, userId, now')
               /\ last' = Returned(o, Null, FALSE, "offline")
               /\ UNCHANGED ops
    /\ UNCHANGED <<session, isOnline, remoteUp, auditUp, remote, drains, syncVars, errVars>>

\* HybridDataService.setData, up to its first call into the remote store
SetDataCall(p, key, data, userId) ==
    /\ ops[p].type = "none"
    /\ now < MaxClock
    /\ now' = now + 1
    /\ LET o == [type |-> "set", key |-> key, data |-> data, userId |-> userId]
       IN IF isOnline
          THEN /\ ops' = [ops EXCEPT ![p] = o]
               /\ UNCHANGED <<local, syncQueue, last>>
          ELSE /\ local' = LocalSet(local, key, data, userId)
               /\ syncQueue' = queueForSync(syncQueue, key, data, userId, now')
               /\ last' = Returned(o, Null, FALSE, "offline")
               /\ UNCHANGED ops
    /\ UNCHANGED <<session, isOnline, remoteUp, auditUp, remote, drains, syncVars, errVars>>

\* HybridDataService.setData, from the end of supabaseBackend.set to its return
SetDataRemoteDone(p) ==
    /\ ops[p].type = "set"
    /\ LET o == ops[p]
           out == SupabaseOutcome(o.userId)
       IN /\ remote' = IF out = "ok" THEN SupabaseSet(remote, o.key, o.data, o.userId)
                       ELSE remote
          /\ local' = LocalSet(local, o.key, o.data, o.userId)
          /\ syncQueue' = IF out = "ok" THEN syncQueue
                          ELSE queueForSync(syncQueue, o.key, o.data, o.userId, now)
          /\ last' = Returned(o, Null, FALSE, out)
          /\ ops' = [ops EXCEPT ![p] = IdleOp]
    /\ UNCHANGED <<session, isOnline, remoteUp, auditUp, now, drains, syncVars, errVars>>

\* HybridDataService.getData, up to its first call into the remote store;
\* safe = TRUE is getDataSafe(key, userId, defaultValue), which wraps it
GetDataCall(p, key, userId, safe, defaultValue) ==
    /\ ops[p].type = "none"
    /\ LET o == [type |-> IF safe THEN "getSafe" ELSE "get", key |-> key,
                 data |-> defaultValue, userId |-> userId]
       IN IF userId = InvalidUserId
          THEN /\ last' = Returned(o, Null, TRUE, "invalid")
               /\ UNCHANGED ops
          ELSE IF isOnline
          THEN /\ ops' = [ops EXCEPT ![p] = o]
               /\ UNCHANGED last
          ELSE LET v == LocalGet(local, key, userId)
               IN /\ last' = Returned(o, IF safe /\ v = Null THEN defaultValue ELSE v,
                                      FALSE, "offline")
                  /\ UNCHANGED ops
    /\ UNCHANGED <<session, isOnline, remoteUp, auditUp, now, local, remote, syncQueue, drains, syncVars, errVars>>

\* mutant: getDataSafe hands back what getData yields, a missing value included
GetDataRemoteDone_NoDefault(p) ==
    /\ ops[p].type \in {"get", "getSafe"}
    /\ LET o == ops[p]
           out == SupabaseOutcome(o.userId)
           supabaseData == IF out = "ok" THEN SupabaseGet(remote, o.key, o.userId) ELSE Null
       IN IF out = "mismatch"
          THEN /\ last' = Returned(o, Null, TRUE, out)
               /\ UNCHANGED local
          ELSE IF supabaseData # Null
          THEN /\ local' = LocalSet(local, o.key, supabaseData, o.userId)
               /\ last' = Returned(o, supabaseData, FALSE, out)
          ELSE /\ last' = Returned(o, LocalGet(local, o.key, o.userId), FALSE, out)
               /\ UNCHANGED local
    /\ ops' = [ops EXCEPT ![p] = IdleOp]
    /\ UNCHANGED <<session, isOnline, remoteUp, auditUp, now, remote, syncQueue, drains, syncVars, errVars>>

\* mutant: every failure of the remote read falls back to the local cache
GetDataRemoteDone_FallsBack(p) ==
    /\ ops[p].type \in {"get", "getSafe"}
    /\ LET o == ops[p]
           out == SupabaseOutcome(o.userId)
           supabaseData == IF out = "ok" THEN SupabaseGet(remote, o.key, o.userId) ELSE Null
       IN IF supabaseData # Null
          THEN /\ local' = LocalSet(local, o.key, supabaseData, o.userId)
               /\ last' = Returned(o, supabaseData, FALSE, out)
          ELSE /\ last' = Returned(o, LocalGet(local, o.key, o.userId), FALSE, out)
               /\ UNCHANGED local
    /\ ops' = [ops EXCEPT ![p] = IdleOp]
    /\ UNCHANGED <<session, isOnline, remoteUp, auditUp, now, remote, syncQueue, drains, syncVars, errVars>>

\* HybridDataService.getData / getDataSafe, from the end of supabaseBackend.get
\* to the return
GetDataRemoteDone(p) ==
    /\ ops[p].type \in {"get", "getSafe"}
    /\ LET o == ops[p]
           safe == o.type = "getSafe"
           out == SupabaseOutcome(o.userId)
           supabaseData == IF out = "ok" THEN SupabaseGet(remote, o.key, o.userId) ELSE Null
       IN IF out = "mismatch"
          THEN /\ last' = Returned(o, Null, TRUE, out)
               /\ UNCHANGED local
          ELSE IF supabaseData # Null
          THEN /\ local' = LocalSet(local, o.key, supabaseData, o.userId)
               /\ last' = Returned(o, supabaseData, FALSE, out)
          ELSE LET v == LocalGet(local, o.key, o.userId)
               IN /\ last' = Returned(o, IF safe /\ v = Null THEN o.data ELSE v, FALSE, out)
                  /\ UNCHANGED local
    /\ ops' = [ops EXCEPT ![p] = IdleOp]
    /\ UNCHANGED <<session, isOnline, remoteUp, auditUp, now, remote, syncQueue, drains, syncVars, errVars>>

\* HybridDataService.getData / getDataSafe, from the end of supabaseBackend.get
\* to the return, when the remote store gave no value and the read of the
\* local cache throws (storageService.get is outside the sources at hand):
\* getData lets the error through, getDataSafe turns it into the default
GetDataLocalThrows(p) ==
    /\ ops[p].type \in {"get", "getSafe"}
    /\ LET o == ops[p]
           out == SupabaseOutcome(o.userId)
       IN /\ out # "mismatch"
          /\ out = "ok" => SupabaseGet(remote, o.key, o.userId) = Null
          /\ last' = IF o.type = "getSafe" THEN Returned(o, o.data, FALSE, "local")
                     ELSE Returned(o, Null, TRUE, "local")
    /\ ops' = [ops EXCEPT ![p] = IdleOp]
    /\ UNCHANGED <<session, isOnline, remoteUp, auditUp, now, local, remote, syncQueue, drains, syncVars, errVars>>

\* mutant: online, the local cache is cleared only once the remote delete
\* has succeeded
RemoveDataCall_RemoteFirst(p, key, userId) ==
    /\ ops[p].type = "none"
    /\ LET o == [type |-> "remove", key |-> key, data |-> Null, userId |-> userId]
       IN IF isOnline
          THEN /\ ops' = [ops EXCEPT ![p] = o]
               /\ UNCHANGED <<local, last>>
          ELSE /\ local' = LocalRemove(local, key, userId)
               /\ last' = Returned(o, Null, FALSE, "offline")
               /\ UNCHANGED ops
    /\ UNCHANGED <<session, isOnline, remoteUp, auditUp, now, remote, syncQueue, drains, syncVars, errVars>>

\* HybridDataService.removeData, up to its call into the remote store
RemoveDataCall(p, key, userId) ==
    /\ ops[p].type = "none"
    /\ local' = LocalRemove(local, key, userId)
    /\ LET o == [type |-> "remove", key |-> key, data |-> Null, userId |-> userId]
       IN IF isOnline
          THEN /\ ops' = [ops EXCEPT ![p] = o]
               /\ UNCHANGED last
          ELSE /\ last' = Returned(o, Null, FALSE, "offline")
               /\ UNCHANGED ops
    /\ UNCHANGED <<session, isOnline, remoteUp, auditUp, now, remote, syncQueue, drains, syncVars, errVars>>

\* HybridDataService.removeData, from the end of supabaseBackend.remove to
\* its return: a failure is logged
RemoveDataRemoteDone(p) ==
    /\ ops[p].type = "remove"
    /\ LET o == ops[p]
           out == SupabaseOutcome(o.userId)
       IN /\ remote' = IF out = "ok" THEN SupabaseRemove(remote, o.key, o.userId) ELSE remote
          /\ last' = Returned(o, Null, FALSE, out)
    /\ ops' = [ops EXCEPT ![p] = IdleOp]
    /\ UNCHANGED <<session, isOnline, remoteUp, auditUp, now, local, syncQueue, drains, syncVars, errVars>>

\* ------------------------------------------------------------ queue drain
\* HybridDataService.processSyncQueue, up to its first supabaseBackend.set
processSyncQueue(online, q) ==
    IF ~online \/ Len(q) = 0 THEN IdleDrain
    ELSE [active |-> TRUE, entries |-> q, idx |-> 1]

FreeDrain == CHOOSE d \in DrainIds : ~drains[d].active

FreeRun == CHOOSE r \in RunIds : runs[r].pc = "idle"

\* the performSync runs in flight
InFlightRuns == {r \in RunIds : runs[r].pc # "idle"}

\* a call that SyncService hands a result to
SyncOp(type, key, data, userId) == [type |-> type, key |-> key, data |-> data, userId |-> userId]

\* mutant: the two guards are inside the try block, so that the catch sets
\* the status to error
performSync_GuardsInsideTry(online, userId) ==
    /\ (online /\ syncStatus # "syncing") => \E r \in RunIds : runs[r].pc = "idle"
    /\ IF ~online
       THEN /\ last' = Returned(SyncOp("sync", "goals", Null, userId), Null, TRUE, "offline")
            /\ syncStatus' = "error"
            /\ UNCHANGED runs
       ELSE IF syncStatus = "syncing"
       THEN /\ last' = Returned(SyncOp("sync", "goals", Null, userId), Null, TRUE, "inProgress")
            /\ syncStatus' = "error"
            /\ UNCHANGED runs
       ELSE /\ syncStatus' = "syncing"
            /\ runs' = [runs EXCEPT ![FreeRun] = [IdleRun EXCEPT !.pc = "getUser", !.userId = userId]]
            /\ UNCHANGED last

\* SyncService.performSync(userId?), up to supabase.auth.getUser(); online
\* is SyncService.isOnline as the call finds it
performSync(online, userId) ==
    /\ (online /\ syncStatus # "syncing") => \E r \in RunIds : runs[r].pc = "idle"
    /\ IF ~online
       THEN /\ last' = Returned(SyncOp("sync", "goals", Null, userId), Null, TRUE, "offline")
            /\ UNCHANGED <<syncStatus, runs>>
       ELSE IF syncStatus = "syncing"
       THEN /\ last' = Returned(SyncOp("sync", "goals", Null, userId), Null, TRUE, "inProgress")
            /\ UNCHANGED <<syncStatus, runs>>
       ELSE /\ syncStatus' = "syncing"
            /\ runs' = [runs EXCEPT ![FreeRun] = [IdleRun EXCEPT !.pc = "getUser", !.userId = userId]]
            /\ UNCHANGED last

\* window 'online' event: the listeners of HybridDataService, SyncService and
\* ErrorHandlingService
GoOnline ==
    /\ ~isOnline
    /\ \E d \in DrainIds : ~drains[d].active
    /\ retryQueue # <<>> => \E l \in LoopIds : ~retryLoops[l].active
    /\ retryLoops' = processRetryQueue(TRUE, retryQueue, retryLoops)
    /\ UNCHANGED <<errorLog, savedLog, retryQueue, handling, handled>>
    /\ isOnline' = TRUE
    /\ drains' = [drains EXCEPT ![FreeDrain] = processSyncQueue(TRUE, syncQueue)]
    /\ IF syncSettings.autoSync THEN performSync(TRUE, NoUser)
       ELSE UNCHANGED <<syncStatus, runs, last>>
    /\ UNCHANGED <<session, remoteUp, auditUp, now, local, remote, syncQueue, ops>>
    /\ UNCHANGED <<localTs, offlineChanges, syncSettings, syncTimer, orphanTimers, pendingConflicts, resolves>>

\* window 'offline' event: the listeners of HybridDataService,
\* ErrorHandlingService and SyncService, the latter calling stopAutoSync()
GoOffline ==
    /\ isOnline
    /\ isOnline' = FALSE
    /\ syncSettings' = [syncSettings EXCEPT !.autoSync = FALSE]
    /\ syncTimer' = FALSE
    /\ UNCHANGED orphanTimers
    /\ UNCHANGED <<session, remoteUp, auditUp, now, local, remote, syncQueue, ops, last, drains>>
    /\ UNCHANGED <<localTs, offlineChanges, syncStatus, pendingConflicts, runs, resolves>>
    /\ UNCHANGED errVars

\* HybridDataService.processSyncQueue: one supabaseBackend.set of the loop
\* ends, and the loop goes on to the next entry of its snapshot
DrainAttemptDone(d) ==
    /\ drains[d].active
    /\ LET e == drains[d].entries[drains[d].idx]
           out == SupabaseOutcome(e.userId)
       IN /\ remote' = IF out = "ok" THEN SupabaseSet(remote, e.key, e.data, e.userId)
                       ELSE remote
          /\ syncQueue' = IF out = "ok" THEN QueueDelete(syncQueue, e.key, e.userId)
                          ELSE syncQueue
          /\ drains' = [drains EXCEPT ![d] =
                          IF drains[d].idx = Len(drains[d].entries) THEN IdleDrain
                          ELSE [drains[d] EXCEPT !.idx = @ + 1]]
    /\ UNCHANGED <<session, isOnline, remoteUp, auditUp, now, local, ops, last, syncVars, errVars>>

\* ------------------------------------------------------------ environment
\* the remote store becomes unreachable / reachable again
RemoteToggle ==
    /\ remoteUp' = ~remoteUp
    /\ UNCHANGED <<session, isOnline, auditUp, now, local, remote, syncQueue, ops, last, drains, syncVars, errVars>>

\* the page is reloaded: the services are constructed again; localStorage
\* (the saved error log included), the remote store and the session outlive it
Restart ==
    /\ syncQueue' = <<>>
    /\ ops' = [p \in Procs |-> IdleOp]
    /\ drains' = [d \in DrainIds |-> IdleDrain]
    /\ syncStatus' = "idle"
    /\ syncTimer' = (syncSettings.autoSync /\ isOnline)
    /\ orphanTimers' = 0
    /\ pendingConflicts' = [k \in SyncTypes |-> NoConflict]
    /\ runs' = [r \in RunIds |-> IdleRun]
    /\ resolves' = IdleResolve
    /\ retryQueue' = <<>>
    /\ handling' = IdleHandling
    /\ retryLoops' = [l \in LoopIds |-> IdleLoop]
    /\ UNCHANGED <<session, isOnline, remoteUp, auditUp, now, local, remote, last>>
    /\ errorLog' = savedLog
    /\ UNCHANGED <<localTs, offlineChanges, syncSettings, savedLog, handled>>

\* ------------------------------------------------------------ SyncService
\* HybridDataService.setData called by SyncService: what the end of its
\* supabaseBackend.set does to the stores and the queue
SetDataSettle(key, data, userId) ==
    LET out == SupabaseOutcome(userId)
    IN /\ remote' = IF out = "ok" THEN SupabaseSet(remote, key, data, userId) ELSE remote
       /\ local' = LocalSet(local, key, data, userId)
       /\ syncQueue' = IF out = "ok" THEN syncQueue
                       ELSE queueForSync(syncQueue, key, data, userId, now)

\* HybridDataService.setData called by SyncService while offline
SetDataOffline(key, data, userId) ==
    /\ remote' = remote
    /\ local' = LocalSet(local, key, data, userId)
    /\ syncQueue' = queueForSync(syncQueue, key, data, userId, now)

\* supabase.auth.getUser(): the user it yields, NoUser when it yields none
GetUser == IF remoteUp THEN session ELSE NoUser

\* detectConflict's threshold, in milliseconds
ConcurrentWindow == 60000

\* the milliseconds one unit of the clock stands for
ClockUnit == 60000

\* a timestamp string that new Date() cannot parse, and the getTime() of
\* the Invalid Date it yields
InvalidDate == -1
NaN == -1

\* new Date(timestamp).getTime(), the timestamp counted in units of unit ms
getTime(unit, timestamp) == IF timestamp = InvalidDate THEN NaN ELSE timestamp * unit

\* Math.abs(localTime - remoteTime)
timeDiff(localTime, remoteTime) ==
    IF localTime = NaN \/ remoteTime = NaN THEN NaN
    ELSE IF localTime >= remoteTime THEN localTime - remoteTime
    ELSE remoteTime - localTime

\* mutant: a difference of exactly the threshold counts as concurrent
conflictTypeOf_Inclusive(diff) ==
    IF diff # NaN /\ diff <= ConcurrentWindow THEN "concurrent_edit" ELSE "update"

\* detectConflict's conflictType: no comparison with NaN is true
conflictTypeOf(diff) ==
    IF diff # NaN /\ diff < ConcurrentWindow THEN "concurrent_edit" ELSE "update"

\* SyncService.detectConflict with the timestamps counted in units of unit ms
detectConflictIn(unit, localData, remoteData, localTimestamp, remoteTimestamp) ==
    IF localData # remoteData
    THEN [present |-> TRUE, localData |-> localData, remoteData |-> remoteData,
          localTimestamp |-> localTimestamp, remoteTimestamp |-> remoteTimestamp,
          conflictType |-> conflictTypeOf(timeDiff(getTime(unit, localTimestamp),
                                                   getTime(unit, remoteTimestamp)))]
    ELSE NoConflict

\* SyncService.detectConflict: one clock unit is the 60 s window, so two
\* timestamps are less than the window apart iff they are equal
detectConflict(localData, remoteData, localTimestamp, remoteTimestamp) ==
    detectConflictIn(ClockUnit, localData, remoteData, localTimestamp, remoteTimestamp)

\* mutant: on a tie of the timestamps the remote side is picked
Winner_RemoteOnTie(policy, localTimestamp, remoteTimestamp) ==
    CASE policy = "local_wins" -> "local"
      [] policy = "remote_wins" -> "remote"
      [] policy = "latest_timestamp" ->
            IF localTimestamp > remoteTimestamp THEN "local" ELSE "remote"
      [] OTHER -> "none"

\* SyncService.resolveConflict: which side the policy picks
Winner(policy, localTimestamp, remoteTimestamp) ==
    CASE policy = "local_wins" -> "local"
      [] policy = "remote_wins" -> "remote"
      [] policy = "latest_timestamp" ->
            IF localTimestamp >= remoteTimestamp THEN "local" ELSE "remote"
      [] OTHER -> "none"

\* the timestamp a finished syncDataType stores under `${key}_timestamp`
StampOf(kr, t) ==
    CASE kr.stamp = "local" -> kr.localTimestamp
      [] kr.stamp = "remote" -> kr.remoteTimestamp
      [] OTHER -> t

\* the rows processOfflineQueue selects: this owner's unprocessed entries
PendingChanges(userId) ==
    IF remoteUp /\ session = userId
    THEN SelectSeq(offlineChanges, LAMBDA c : c.userId = userId /\ ~c.processed)
    ELSE <<>>

\* syncAllDataTypes: every syncDataType of the batch reads its local data
\* and timestamp and issues getRemoteData
StartTypes(run) ==
    [run EXCEPT !.pc = "types",
                !.kinds = [k \in SyncTypes |->
                    [KindIdle EXCEPT !.pc = IF isOnline THEN "getRemote" ELSE "getTs",
                                     !.localData = local[k],
                                     !.localTimestamp = localTs[k],
                                     !.remoteData = IF isOnline THEN Null
                                                    ELSE LocalGet(local, k, run.userId)]]]

\* mutant: a run that ends leaves the status as it is
RunAfter_KeepStatus(r, run) ==
    IF run.pc = "types" /\ \A k \in SyncTypes : run.kinds[k].pc = "done"
    THEN /\ runs' = [runs EXCEPT ![r] = IdleRun]
         /\ last' = Returned(SyncOp("sync", "goals", Null, run.userId), "idle", FALSE, "none")
         /\ UNCHANGED <<syncStatus, pendingConflicts>>
    ELSE /\ runs' = [runs EXCEPT ![r] = run]
         /\ UNCHANGED <<syncStatus, pendingConflicts, last>>

\* performSync after syncAllDataTypes: once every syncDataType has returned,
\* the conflicts are recorded and the status is set; until then the run goes on
RunAfter(r, run) ==
    IF run.pc = "types" /\ \A k \in SyncTypes : run.kinds[k].pc = "done"
    THEN LET conflicts == {k \in SyncTypes : run.kinds[k].conflict}
         IN /\ runs' = [runs EXCEPT ![r] = IdleRun]
            /\ IF conflicts # {}
               THEN /\ pendingConflicts' = [k \in SyncTypes |->
                         IF k \in conflicts
                         THEN detectConflict(run.kinds[k].localData, run.kinds[k].remoteData,
                                             run.kinds[k].localTimestamp,
                                             run.kinds[k].remoteTimestamp)
                         ELSE NoConflict]
                    /\ syncStatus' = "conflict"
                    /\ last' = [Returned(SyncOp("sync", "goals", Null, run.userId),
                                         "conflict", FALSE, "none")
                                   EXCEPT !.totalSynced = Cardinality(SyncTypes \ conflicts)]
               ELSE /\ syncStatus' = "idle"
                    /\ last' = [Returned(SyncOp("sync", "goals", Null, run.userId),
                                         "idle", FALSE, "none")
                                   EXCEPT !.totalSynced = Cardinality(SyncTypes)]
                    /\ UNCHANGED pendingConflicts
    ELSE /\ runs' = [runs EXCEPT ![r] = run]
         /\ UNCHANGED <<syncStatus, pendingConflicts, last>>

\* what no step of a performSync run changes
RunFrame == <<session, isOnline, remoteUp, auditUp, now, ops, drains, syncSettings, syncTimer, orphanTimers, resolves,
              errVars>>

\* an explicit performSync(userId?) request
PerformSyncRequest(userId) ==
    /\ performSync(isOnline, userId)
    /\ UNCHANGED <<local, remote, syncQueue, localTs, offlineChanges, pendingConflicts>>
    /\ UNCHANGED RunFrame

\* the setInterval callback of initializeAutoSync
SyncTimerTick ==
    /\ syncTimer \/ orphanTimers > 0
    /\ performSync(isOnline, NoUser)
    /\ UNCHANGED <<local, remote, syncQueue, localTs, offlineChanges, pendingConflicts>>
    /\ UNCHANGED RunFrame

\* performSync: getUser() ends; without a user id the run throws, the catch
\* block sets the status and rethrows; with one processOfflineQueue issues
\* its select
SyncGetUserDone(r) ==
    /\ runs[r].pc = "getUser"
    /\ LET currentUserId == IF runs[r].userId # NoUser THEN runs[r].userId ELSE GetUser
       IN IF currentUserId = NoUser
          THEN /\ runs' = [runs EXCEPT ![r] = IdleRun]
               /\ syncStatus' = "error"
               /\ last' = Returned(SyncOp("sync", "goals", Null, NoUser), Null, TRUE, "noUser")
          ELSE /\ runs' = [runs EXCEPT ![r].pc = "select", ![r].userId = currentUserId]
               /\ UNCHANGED <<syncStatus, last>>
    /\ UNCHANGED <<local, remote, syncQueue, localTs, offlineChanges, pendingConflicts>>
    /\ UNCHANGED RunFrame

\* processOfflineQueue's next change, or syncAllDataTypes after the last:
\* if encryptionService.decrypt throws, the update that attaches the error
\* message is issued; otherwise an 'update' calls setData, which settles at
\* once when offline and then issues the update that marks the change
\* processed
NextChange(r, run) ==
    IF run.idx > Len(run.changes)
    THEN /\ RunAfter(r, StartTypes(run))
         /\ UNCHANGED <<local, remote, syncQueue>>
    ELSE LET c == run.changes[run.idx]
         IN IF c.corrupt
            THEN /\ RunAfter(r, [run EXCEPT !.pc = "fail"])
                 /\ UNCHANGED <<local, remote, syncQueue>>
            ELSE IF isOnline
            THEN /\ RunAfter(r, [run EXCEPT !.pc = "apply"])
                 /\ UNCHANGED <<local, remote, syncQueue>>
            ELSE /\ SetDataOffline(c.key, c.data, run.userId)
                 /\ RunAfter(r, [run EXCEPT !.pc = "mark"])

\* processOfflineQueue: the select ends
SyncSelectDone(r) ==
    /\ runs[r].pc = "select"
    /\ NextChange(r, [runs[r] EXCEPT !.changes = PendingChanges(runs[r].userId), !.idx = 1])
    /\ UNCHANGED <<localTs, offlineChanges>>
    /\ UNCHANGED RunFrame

\* processOfflineQueue: the setData of a change ends
SyncApplyDone(r) ==
    /\ runs[r].pc = "apply"
    /\ SetDataSettle(runs[r].changes[runs[r].idx].key, runs[r].changes[runs[r].idx].data,
                     runs[r].userId)
    /\ RunAfter(r, [runs[r] EXCEPT !.pc = "mark"])
    /\ UNCHANGED <<localTs, offlineChanges>>
    /\ UNCHANGED RunFrame

\* processOfflineQueue: the update marking a change processed ends
SyncMarkDone(r) ==
    /\ runs[r].pc = "mark"
    /\ offlineChanges' =
          IF remoteUp /\ session = runs[r].userId
          THEN [i \in DOMAIN offlineChanges |->
                  IF offlineChanges[i].id = runs[r].changes[runs[r].idx].id
                  THEN [offlineChanges[i] EXCEPT !.processed = TRUE]
                  ELSE offlineChanges[i]]
          ELSE offlineChanges
    /\ NextChange(r, [runs[r] EXCEPT !.idx = @ + 1])
    /\ UNCHANGED localTs
    /\ UNCHANGED RunFrame

\* processOfflineQueue: the update attaching the error message to a change
\* that could not be processed ends
SyncFailDone(r) ==
    /\ runs[r].pc = "fail"
    /\ offlineChanges' =
          IF remoteUp /\ session = runs[r].userId
          THEN [i \in DOMAIN offlineChanges |->
                  IF offlineChanges[i].id = runs[r].changes[runs[r].idx].id
                  THEN [offlineChanges[i] EXCEPT !.errorMessage = TRUE]
                  ELSE offlineChanges[i]]
          ELSE offlineChanges
    /\ NextChange(r, [runs[r] EXCEPT !.idx = @ + 1])
    /\ UNCHANGED localTs
    /\ UNCHANGED RunFrame

\* syncDataType(k): getRemoteData, i.e. dataService.getData with its errors
\* swallowed, ends; getRemoteTimestamp is issued
KindGetRemoteDone(r, k) ==
    /\ runs[r].pc = "types"
    /\ runs[r].kinds[k].pc = "getRemote"
    /\ LET userId == runs[r].userId
           out == SupabaseOutcome(userId)
           supabaseData == IF out = "ok" THEN SupabaseGet(remote, k, userId) ELSE Null
           remoteData == IF out = "mismatch" THEN Null
                         ELSE IF supabaseData # Null THEN supabaseData
                         ELSE LocalGet(local, k, userId)
       IN /\ local' = IF supabaseData # Null THEN LocalSet(local, k, supabaseData, userId)
                      ELSE local
          /\ runs' = [runs EXCEPT ![r].kinds[k].pc = "getTs",
                                  ![r].kinds[k].remoteData = remoteData]
    /\ UNCHANGED <<remote, syncQueue, localTs, offlineChanges, syncStatus, pendingConflicts, last>>
    /\ UNCHANGED RunFrame

\* mutant: equal timestamps count as the local side being newer
Decision_PushOnTie(policy, kr) ==
    IF kr.localData = Null
    THEN IF kr.remoteData # Null
         THEN [do |-> "set", data |-> kr.remoteData, stamp |-> "remote"]
         ELSE [do |-> "done", data |-> Null, stamp |-> "none"]
    ELSE IF kr.remoteData = Null
    THEN [do |-> "set", data |-> kr.localData, stamp |-> "now"]
    ELSE IF detectConflict(kr.localData, kr.remoteData,
                           kr.localTimestamp, kr.remoteTimestamp).present
    THEN LET w == Winner(policy, kr.localTimestamp, kr.remoteTimestamp)
         IN CASE w = "local" -> [do |-> "set", data |-> kr.localData, stamp |-> "local"]
              [] w = "remote" -> [do |-> "set", data |-> kr.remoteData, stamp |-> "remote"]
              [] OTHER -> [do |-> "conflict", data |-> Null, stamp |-> "none"]
    ELSE IF kr.localTimestamp < kr.remoteTimestamp
    THEN [do |-> "pull", data |-> kr.remoteData, stamp |-> "remote"]
    ELSE IF kr.localTimestamp >= kr.remoteTimestamp
    THEN [do |-> "set", data |-> kr.localData, stamp |-> "now"]
    ELSE [do |-> "done", data |-> Null, stamp |-> "none"]

\* syncDataType(k) from the end of getRemoteTimestamp: what it does next.
\* "set" is a dataService.setData of data followed by storing stamp as the
\* local timestamp; "pull" is pullData; "conflict" and "done" return
Decision(policy, kr) ==
    IF kr.localData = Null
    THEN IF kr.remoteData # Null
         THEN [do |-> "set", data |-> kr.remoteData, stamp |-> "remote"]
         ELSE [do |-> "done", data |-> Null, stamp |-> "none"]
    ELSE IF kr.remoteData = Null
    THEN [do |-> "set", data |-> kr.localData, stamp |-> "now"]
    ELSE IF detectConflict(kr.localData, kr.remoteData,
                           kr.localTimestamp, kr.remoteTimestamp).present
    THEN LET w == Winner(policy, kr.localTimestamp, kr.remoteTimestamp)
         IN CASE w = "local" -> [do |-> "set", data |-> kr.localData, stamp |-> "local"]
              [] w = "remote" -> [do |-> "set", data |-> kr.remoteData, stamp |-> "remote"]
              [] OTHER -> [do |-> "conflict", data |-> Null, stamp |-> "none"]
    ELSE IF kr.localTimestamp < kr.remoteTimestamp
    THEN [do |-> "pull", data |-> kr.remoteData, stamp |-> "remote"]
    ELSE IF kr.localTimestamp > kr.remoteTimestamp
    THEN [do |-> "set", data |-> kr.localData, stamp |-> "now"]
    ELSE [do |-> "done", data |-> Null, stamp |-> "none"]

\* getRemoteTimestamp: the single sync_status row of the key if the select
\* is accepted and finds exactly one, else the epoch. The rows are written
\* by every device of the owner, so any timestamp up to now may be found
RemoteTimestamps(userId) ==
    IF remoteUp /\ session = userId THEN Epoch..now ELSE {Epoch}

\* syncDataType(k): getRemoteTimestamp ends
KindGetTsDone(r, k, remoteTimestamp) ==
    /\ runs[r].pc = "types"
    /\ runs[r].kinds[k].pc = "getTs"
    /\ remoteTimestamp \in RemoteTimestamps(runs[r].userId)
    /\ LET kr == [runs[r].kinds[k] EXCEPT !.remoteTimestamp = remoteTimestamp]
           d == Decision(syncSettings.conflictResolution, kr)
           kd == [kr EXCEPT !.data = d.data, !.stamp = d.stamp]
       IN CASE d.do = "set" /\ isOnline ->
                 /\ RunAfter(r, [runs[r] EXCEPT !.kinds[k] = [kd EXCEPT !.pc = "setData"]])
                 /\ UNCHANGED <<local, remote, syncQueue, localTs>>
            [] d.do = "set" /\ ~isOnline ->
                 /\ SetDataOffline(k, d.data, runs[r].userId)
                 /\ localTs' = [localTs EXCEPT ![k] = StampOf(kd, now)]
                 /\ RunAfter(r, [runs[r] EXCEPT !.kinds[k] = KindDone])
            [] d.do = "pull" ->
                 /\ local' = [local EXCEPT ![k] = d.data]
                 /\ localTs' = [localTs EXCEPT ![k] = StampOf(kd, now)]
                 /\ RunAfter(r, [runs[r] EXCEPT !.kinds[k] = KindDone])
                 /\ UNCHANGED <<remote, syncQueue>>
            [] d.do = "conflict" ->
                 /\ RunAfter(r, [runs[r] EXCEPT !.kinds[k] =
                                    [kr EXCEPT !.pc = "done", !.conflict = TRUE]])
                 /\ UNCHANGED <<local, remote, syncQueue, localTs>>
            [] OTHER ->
                 /\ RunAfter(r, [runs[r] EXCEPT !.kinds[k] = KindDone])
                 /\ UNCHANGED <<local, remote, syncQueue, localTs>>
    /\ UNCHANGED offlineChanges
    /\ UNCHANGED RunFrame

\* syncDataType(k): its dataService.setData ends and the local timestamp is
\* stored
KindSetDone(r, k) ==
    /\ runs[r].pc = "types"
    /\ runs[r].kinds[k].pc = "setData"
    /\ SetDataSettle(k, runs[r].kinds[k].data, runs[r].userId)
    /\ localTs' = [localTs EXCEPT ![k] = StampOf(runs[r].kinds[k], now)]
    /\ RunAfter(r, [runs[r] EXCEPT !.kinds[k] = KindDone])
    /\ UNCHANGED offlineChanges
    /\ UNCHANGED RunFrame

\* a merged value that JavaScript treats as false: 0, '' or false
Falsy == "0"

\* !mergedData is false
Truthy(mergedData) == mergedData \notin {Null, Falsy}

\* what no step of resolveConflictManually changes
ResolveFrame == <<session, isOnline, remoteUp, auditUp, now, ops, drains, syncSettings, syncTimer, orphanTimers,
                  runs, offlineChanges, errVars>>

\* resolveConflictManually, from its setData to its return: the timestamp
\* is stored, the conflict removed, and the status set to idle if none is left
ResolveFinish(key, timestamp, o) ==
    /\ localTs' = [localTs EXCEPT ![key] = timestamp]
    /\ pendingConflicts' = [pendingConflicts EXCEPT ![key] = NoConflict]
    /\ syncStatus' = IF \A k \in SyncTypes : ~pendingConflicts'[k].present THEN "idle"
                     ELSE syncStatus
    /\ last' = Returned(o, "true", FALSE, "none")
    /\ resolves' = IdleResolve

\* resolveConflictManually(conflictKey, resolution, mergedData), up to getUser()
ResolveCall(conflictKey, resolution, mergedData) ==
    /\ resolves.pc = "idle"
    /\ IF conflictKey \notin SyncTypes \/ ~pendingConflicts[conflictKey].present
       THEN /\ last' = Returned(SyncOp("resolve", conflictKey, mergedData, NoUser),
                                Null, TRUE, "noConflict")
            /\ UNCHANGED resolves
       ELSE /\ resolves' = [pc |-> "getUser", key |-> conflictKey, resolution |-> resolution,
                            data |-> mergedData, userId |-> NoUser,
                            conflict |-> pendingConflicts[conflictKey],
                            timestamp |-> Epoch]
            /\ UNCHANGED last
    /\ UNCHANGED <<local, remote, syncQueue, localTs, syncStatus, pendingConflicts>>
    /\ UNCHANGED ResolveFrame

\* resolveConflictManually: getUser() ends; setData is called, which settles
\* at once when offline
ResolveGetUserDone ==
    /\ resolves.pc = "getUser"
    /\ LET c == resolves
           user == GetUser
           finalData == CASE c.resolution = "use_local" -> c.conflict.localData
                          [] c.resolution = "use_remote" -> c.conflict.remoteData
                          [] OTHER -> c.data
           o == SyncOp("resolve", c.key, finalData, user)
       IN IF user = NoUser \/ (c.resolution = "merge" /\ ~Truthy(c.data))
          THEN /\ last' = Returned(o, "false", FALSE, "failed")
               /\ resolves' = IdleResolve
               /\ UNCHANGED <<local, remote, syncQueue, localTs, syncStatus, pendingConflicts>>
          ELSE IF isOnline
          THEN /\ resolves' = [c EXCEPT !.pc = "setData", !.data = finalData, !.userId = user,
                                        !.conflict = NoConflict, !.timestamp = now]
               /\ UNCHANGED <<local, remote, syncQueue, localTs, syncStatus, pendingConflicts,
                              last>>
          ELSE /\ SetDataOffline(c.key, finalData, user)
               /\ ResolveFinish(c.key, now, o)
    /\ UNCHANGED ResolveFrame

\* resolveConflictManually: its setData ends
ResolveSetDone ==
    /\ resolves.pc = "setData"
    /\ SetDataSettle(resolves.key, resolves.data, resolves.userId)
    /\ ResolveFinish(resolves.key, resolves.timestamp,
                     SyncOp("resolve", resolves.key, resolves.data, resolves.userId))
    /\ UNCHANGED ResolveFrame

\* SyncService.initializeAutoSync(): setInterval's handle is stored over
\* whatever handle syncTimer held, and the interval of that handle runs on
initializeAutoSync(settings, timer, orphans) ==
    IF settings.autoSync /\ isOnline
    THEN [syncTimer |-> TRUE, orphanTimers |-> orphans + (IF timer THEN 1 ELSE 0)]
    ELSE [syncTimer |-> timer, orphanTimers |-> orphans]

\* SyncService.startAutoSync()
StartAutoSync ==
    LET settings == [syncSettings EXCEPT !.autoSync = TRUE]
        started == initializeAutoSync(settings, syncTimer, orphanTimers)
    IN /\ started.orphanTimers <= MaxOrphans
       /\ syncSettings' = settings
       /\ syncTimer' = started.syncTimer
       /\ orphanTimers' = started.orphanTimers
       /\ UNCHANGED <<session, isOnline, remoteUp, auditUp, now, local, remote, syncQueue, ops, last, drains>>
       /\ UNCHANGED <<localTs, offlineChanges, syncStatus, pendingConflicts, runs, resolves>>
       /\ UNCHANGED errVars

\* SyncService.stopAutoSync(): clearInterval of the handle syncTimer holds
StopAutoSync ==
    /\ syncSettings' = [syncSettings EXCEPT !.autoSync = FALSE]
    /\ syncTimer' = FALSE
    /\ UNCHANGED <<session, isOnline, remoteUp, auditUp, now, local, remote, syncQueue, ops, last, drains>>
    /\ UNCHANGED <<localTs, offlineChanges, syncStatus, orphanTimers, pendingConflicts, runs, resolves>>
    /\ UNCHANGED errVars

\* the names of the settings kept in the model
SettingNames == {"autoSync", "syncInterval", "conflictResolution"}

\* the values the settings take in the calls explored
SettingValues ==
    [autoSync : BOOLEAN,
     syncInterval : {defaultSyncInterval, defaultSyncInterval \div 5},
     conflictResolution : {"manual", "latest_timestamp"}]

\* Partial<SyncSettings>: values for some of the settings
PartialSettings ==
    {[n \in names |-> values[n]] : names \in SUBSET SettingNames, values \in SettingValues}

\* { ...syncSettings, ...settings }
Spread(old, settings) ==
    [n \in DOMAIN old |-> IF n \in DOMAIN settings THEN settings[n] ELSE old[n]]

\* SyncService.updateSyncSettings(settings): the merge, then, when autoSync
\* or syncInterval is given, stopAutoSync() and initializeAutoSync() if the
\* autoSync that stopAutoSync left is true
UpdateSyncSettings(settings) ==
    LET merged == Spread(syncSettings, settings)
        restart == "autoSync" \in DOMAIN settings \/ "syncInterval" \in DOMAIN settings
        stopped == [merged EXCEPT !.autoSync = FALSE]
        started == IF stopped.autoSync THEN initializeAutoSync(stopped, FALSE, orphanTimers)
                   ELSE [syncTimer |-> FALSE, orphanTimers |-> orphanTimers]
    IN /\ syncSettings' = IF restart THEN stopped ELSE merged
       /\ syncTimer' = IF restart THEN started.syncTimer ELSE syncTimer
       /\ orphanTimers' = IF restart THEN started.orphanTimers ELSE orphanTimers
       /\ UNCHANGED <<session, isOnline, remoteUp, auditUp, now, local, remote, syncQueue, ops, last, drains>>
       /\ UNCHANGED <<localTs, offlineChanges, syncStatus, pendingConflicts, runs, resolves>>
       /\ UNCHANGED errVars

\* another device of the owner writes a record to the remote store
OtherDeviceWrite(k, data, userId) ==
    /\ remote[userId][k] # data
    /\ remote' = SupabaseSet(remote, k, data, userId)
    /\ UNCHANGED <<session, isOnline, remoteUp, auditUp, now, local, syncQueue, ops, last, drains, syncVars, errVars>>

\* ------------------------------------------------------------ specifications
\* the owners whose writes are explored
Writers == {"u1"}

SetDataStep ==
    \/ \E p \in Procs, k \in Kinds, u \in Writers : \E v \in ValuesOf(u) : SetDataCall(p, k, v, u)
    \/ \E p \in Procs : SetDataRemoteDone(p)

\* writes, connectivity and the queue drain
NextQueue ==
    \/ SetDataStep
    \/ GoOnline
    \/ GoOffline
    \/ \E d \in DrainIds : DrainAttemptDone(d)
    \/ RemoteToggle
    \/ Restart

SpecQueue == Init /\ [][NextQueue]_vars

\* writes one at a time and no page reloads; every supabaseBackend.set of a
\* drain loop that is in flight eventually settles
NextDrain ==
    \/ \E k \in Kinds, u \in Writers : \E v \in ValuesOf(u) : SetDataCall(1, k, v, u)
    \/ SetDataRemoteDone(1)
    \/ GoOnline
    \/ GoOffline
    \/ \E d \in DrainIds : DrainAttemptDone(d)
    \/ RemoteToggle

SpecDrain == Init /\ [][NextDrain]_vars /\ \A d \in DrainIds : WF_vars(DrainAttemptDone(d))

\* reads and writes, one call at a time
NextRead ==
    \/ \E k \in Kinds, u \in Writers : \E v \in ValuesOf(u) : SetDataCall(1, k, v, u)
    \/ SetDataRemoteDone(1)
    \/ \E k \in Kinds, u \in Owners \cup {InvalidUserId}, safe \in BOOLEAN :
         \E dv \in IF safe THEN {"u2A"} ELSE {Null} : GetDataCall(1, k, u, safe, dv)
    \/ GetDataRemoteDone(1)
    \/ GoOffline
    \/ RemoteToggle

SpecRead == Init /\ [][NextRead]_vars

\* an unprocessed row of offline_changes_queue; corrupt: its encrypted_data
\* cannot be decrypted; errorMessage: error_message is set
QueuedChange == [id |-> 1, key |-> "goals", data |-> "u1A", userId |-> "u1", processed |-> FALSE,
                 corrupt |-> FALSE, errorMessage |-> FALSE]

\* an unprocessed row whose data cannot be decrypted
CorruptChange == [id |-> 2, key |-> "points", data |-> "u1B", userId |-> "u1",
                  processed |-> FALSE, corrupt |-> TRUE, errorMessage |-> FALSE]

\* the kind that is edited, on this device and on others
Edited == "goals"

\* any stored setting of autoSync, manual conflict resolution, and no
\* offline change queued in the remote table
InitSync ==
    Constructed({"u1", NoUser},
                [autoSync : BOOLEAN, syncInterval : {defaultSyncInterval}, conflictResolution : {"manual"}],
                {<<>>})

\* the steps of run r; the sync_status select finds no single row
RunStepOf(r) ==
    \/ SyncGetUserDone(r)
    \/ SyncSelectDone(r)
    \/ \E k \in SyncTypes : \/ KindGetRemoteDone(r, k)
                               \/ KindGetTsDone(r, k, Epoch)
                               \/ KindSetDone(r, k)

RunStep == \E r \in RunIds : RunStepOf(r)

ResolveStep ==
    \/ \E res \in {"use_local", "use_remote", "merge"} : ResolveCall(Edited, res, Null)
    \/ ResolveGetUserDone
    \/ ResolveSetDone

\* synchronisation runs started by the timer and on request, manual
\* resolutions, loss of connectivity, and edits of one kind on another device
NextSync ==
    \/ PerformSyncRequest(NoUser)
    \/ SyncTimerTick
    \/ RunStep
    \/ ResolveStep
    \/ GoOffline
    \/ \E v \in ValuesOf("u1") : OtherDeviceWrite(Edited, v, "u1")

SpecSync == InitSync /\ [][NextSync]_vars

\* connectivity lost and restored, startAutoSync, the timer, the runs they
\* start, and edits of one kind on another device
NextNet ==
    \/ GoOnline
    \/ GoOffline
    \/ StartAutoSync
    \/ SyncTimerTick
    \/ RunStep
    \/ \E d \in DrainIds : DrainAttemptDone(d)
    \/ OtherDeviceWrite(Edited, "u1A", "u1")

SpecNet == InitSync /\ [][NextNet]_vars

\* an automatic conflict-resolution policy stored in the settings
InitPolicy ==
    Constructed({"u1"},
                [autoSync : {FALSE}, syncInterval : {defaultSyncInterval}, conflictResolution : Policies \ {"manual"}],
                {<<>>})

\* the steps of run r, the sync_status select finding any row or none
RunStepAt(r) ==
    \/ SyncGetUserDone(r)
    \/ SyncSelectDone(r)
    \/ \E k \in SyncTypes : \/ KindGetRemoteDone(r, k)
                               \/ \E t \in Epoch..MaxClock : KindGetTsDone(r, k, t)
                               \/ KindSetDone(r, k)

\* runs on request under an automatic policy, edits of one kind on this
\* device and on another one, and a remote store that comes and goes
NextPolicy ==
    \/ PerformSyncRequest(NoUser)
    \/ \E r \in RunIds : RunStepAt(r)
    \/ \E v \in ValuesOf("u1") : SetDataCall(1, Edited, v, "u1")
    \/ SetDataRemoteDone(1)
    \/ \E v \in ValuesOf("u1") : OtherDeviceWrite(Edited, v, "u1")
    \/ RemoteToggle

SpecPolicy == InitPolicy /\ [][NextPolicy]_vars

\* no performSync has been called yet
NoRunYet == last.type # "sync" /\ InFlightRuns = {}

\* any stored policy
InitTwice ==
    Constructed({"u1"},
                [autoSync : {FALSE}, syncInterval : {defaultSyncInterval}, conflictResolution : Policies],
                {<<>>})

\* edits of one kind on this device and on another one, then runs on
\* request with no write between them
NextTwice ==
    \/ NoRunYet /\ \E v \in ValuesOf("u1") : SetDataCall(1, Edited, v, "u1")
    \/ NoRunYet /\ SetDataRemoteDone(1)
    \/ NoRunYet /\ \E v \in ValuesOf("u1") : OtherDeviceWrite(Edited, v, "u1")
    \/ PerformSyncRequest(NoUser)
    \/ \E r \in RunIds : RunStepAt(r)

SpecTwice == InitTwice /\ [][NextTwice]_vars

\* the merged values a caller passes: none, a falsy one, and a record
MergedValues == {Null, Falsy, "u1B"}

MergeStep ==
    \/ \E m \in MergedValues : ResolveCall(Edited, "merge", m)
    \/ ResolveGetUserDone
    \/ ResolveSetDone

\* manual policy, a user signed in
InitMerge ==
    Constructed({"u1"}, {[autoSync |-> FALSE, syncInterval |-> defaultSyncInterval, conflictResolution |-> "manual"]}, {<<>>})

\* synchronisation runs on request, edits of one kind on another device, and
\* manual resolutions by merge
NextMerge ==
    \/ PerformSyncRequest(NoUser)
    \/ RunStep
    \/ MergeStep
    \/ \E v \in ValuesOf("u1") : OtherDeviceWrite(Edited, v, "u1")

SpecMerge == InitMerge /\ [][NextMerge]_vars

\* the default handed to getDataSafe
DefaultValue == "u2A"

\* writes and getDataSafe reads, one call at a time; the read of the local
\* cache may throw
NextSafe ==
    \/ \E k \in Kinds, u \in Writers : \E v \in ValuesOf(u) : SetDataCall(1, k, v, u)
    \/ SetDataRemoteDone(1)
    \/ \E k \in Kinds, u \in Owners \cup {InvalidUserId} : GetDataCall(1, k, u, TRUE, DefaultValue)
    \/ GetDataRemoteDone(1)
    \/ GetDataLocalThrows(1)
    \/ GoOffline
    \/ RemoteToggle

SpecSafe == Init /\ [][NextSafe]_vars

\* ------------------------------------------------------------ skill list
\* longest skill list explored
MaxLen == 2
\* skills, as the strings the lists hold
Skills == {"a", "b", "c"}
SkillLists == UNION {[1..n -> Skills] : n \in 0..MaxLen}
SkillsKey == "skillsList"

RECURSIVE Unique_StoredFirst(_)
\* mutant: the later occurrence of an item is the one kept
Unique_StoredFirst(combined) ==
    IF combined = <<>> THEN <<>>
    ELSE IF \E i \in 2..Len(combined) : combined[i] = Head(combined)
         THEN Unique_StoredFirst(Tail(combined))
         ELSE <<Head(combined)>> \o Unique_StoredFirst(Tail(combined))

RECURSIVE Unique(_)
\* Array.from(new Set(combined)): a Set keeps each item at the position of
\* its first insertion
Unique(combined) ==
    IF combined = <<>> THEN <<>>
    ELSE LET init == Unique(SubSeq(combined, 1, Len(combined) - 1))
             x == combined[Len(combined)]
         IN IF \E i \in DOMAIN init : init[i] = x THEN init ELSE Append(init, x)

\* getDataSafe('skillsList', userId, defaultValue), from the array data that
\* getData yielded to the return
SkillsListSafe(data, defaultValue) ==
    IF Len(data) = 0 THEN defaultValue
    ELSE Unique(defaultValue \o data)

\* the services with a skill list stored by an earlier session, in the local
\* cache and in the remote store
InitSkills ==
    /\ session = "u1"
    /\ isOnline \in BOOLEAN
    /\ remoteUp = TRUE
    /\ auditUp = TRUE
    /\ now = 1
    /\ local \in [{SkillsKey} -> SkillLists]
    /\ remote \in {[u \in Owners |-> [k \in {SkillsKey} |-> l]] : l \in SkillLists}
    /\ syncQueue = <<>>
    /\ ops = [p \in Procs |-> IdleOp]
    /\ last = NoCall
    /\ drains = [d \in DrainIds |-> IdleDrain]
    /\ localTs = [k \in Kinds |-> Epoch]
    /\ offlineChanges = <<>>
    /\ syncSettings = [autoSync |-> FALSE, syncInterval |-> defaultSyncInterval, conflictResolution |-> "latest_timestamp"]
    /\ syncStatus = "idle"
    /\ syncTimer = FALSE
    /\ orphanTimers = 0
    /\ pendingConflicts = [k \in SyncTypes |-> NoConflict]
    /\ runs = [r \in RunIds |-> IdleRun]
    /\ resolves = IdleResolve
    /\ errorLog = <<>>
    /\ savedLog = <<>>
    /\ retryQueue = <<>>
    /\ handling = IdleHandling
    /\ retryLoops = [l \in LoopIds |-> IdleLoop]
    /\ handled = NoResult

\* getDataSafe('skillsList', userId, defaultValue) with an array default, up
\* to getData's first call into the remote store
GetSkillsCall(p, userId, defaultValue) ==
    /\ ops[p].type = "none"
    /\ LET o == [type |-> "getSafe", key |-> SkillsKey, data |-> defaultValue,
                 userId |-> userId]
       IN IF isOnline
          THEN /\ ops' = [ops EXCEPT ![p] = o]
               /\ UNCHANGED last
          ELSE /\ last' = Returned(o, SkillsListSafe(LocalGet(local, SkillsKey, userId),
                                                     defaultValue),
                                   FALSE, "offline")
               /\ UNCHANGED ops
    /\ UNCHANGED <<session, isOnline, remoteUp, auditUp, now, local, remote, syncQueue, drains, syncVars, errVars>>

\* getDataSafe('skillsList', ...), from the end of supabaseBackend.get to the
\* return: the stored list is the remote one, written through to the local
\* cache, or the cached one when the remote store cannot be reached
GetSkillsRemoteDone(p) ==
    /\ ops[p].type = "getSafe"
    /\ ops[p].key = SkillsKey
    /\ LET o == ops[p]
           out == SupabaseOutcome(o.userId)
       IN IF out = "mismatch"
          THEN /\ last' = Returned(o, Null, TRUE, out)
               /\ UNCHANGED local
          ELSE IF out = "ok"
          THEN LET supabaseData == SupabaseGet(remote, o.key, o.userId)
               IN /\ local' = LocalSet(local, o.key, supabaseData, o.userId)
                  /\ last' = Returned(o, SkillsListSafe(supabaseData, o.data), FALSE, out)
          ELSE /\ last' = Returned(o, SkillsListSafe(LocalGet(local, o.key, o.userId), o.data),
                                   FALSE, out)
               /\ UNCHANGED local
    /\ ops' = [ops EXCEPT ![p] = IdleOp]
    /\ UNCHANGED <<session, isOnline, remoteUp, auditUp, now, remote, syncQueue, drains, syncVars, errVars>>

\* reads of the skill list with every default, online and offline
NextSkills ==
    \/ \E dv \in SkillLists : GetSkillsCall(1, "u1", dv)
    \/ GetSkillsRemoteDone(1)
    \/ GoOffline
    \/ RemoteToggle

SpecSkills == InitSkills /\ [][NextSkills]_vars

\* writes, removals and reads by one owner, one call at a time
NextRemove ==
    \/ \E k \in Kinds, u \in Writers : \E v \in ValuesOf(u) : SetDataCall(1, k, v, u)
    \/ SetDataRemoteDone(1)
    \/ \E k \in Kinds, u \in Writers : RemoveDataCall(1, k, u)
    \/ RemoveDataRemoteDone(1)
    \/ \E k \in Kinds, u \in Writers : GetDataCall(1, k, u, FALSE, Null)
    \/ GetDataRemoteDone(1)
    \/ GoOffline
    \/ RemoteToggle

SpecRemove == Init /\ [][NextRemove]_vars

\* ------------------------------------------------------------ error handling steps
\* what no step of ErrorHandlingService changes
ErrFrame == <<session, isOnline, remoteUp, auditUp, now, local, remote, syncQueue, ops, last, drains,
              syncVars>>

\* handleError(error, category, severity), up to the first handler call;
\* with no strategy for the category it escalates and returns. No more than
\* calls errors are handled
HandleErrorUpTo(calls, category, severity) ==
    /\ handling.pc = "idle"
    /\ generateErrorId(errorLog) <= calls
    /\ LET errorInfo == createErrorInfo(generateErrorId(errorLog), category, severity)
           strategies == StrategiesFor(category)
       IN /\ errorLog' = logError(errorLog, errorInfo)
          /\ savedLog' = saveErrorLog(errorLog')
          /\ IF strategies = <<>>
             THEN /\ handled' = escalateError(errorInfo)
                  /\ UNCHANGED handling
             ELSE /\ handling' = [pc |-> "handler", id |-> errorInfo.id,
                                  strategies |-> [i \in DOMAIN strategies |-> strategies[i].name],
                                  idx |-> 1, invoked |-> <<>>]
                  /\ UNCHANGED handled
    /\ UNCHANGED <<retryQueue, retryLoops>>
    /\ UNCHANGED ErrFrame

HandleErrorCall(category, severity) == HandleErrorUpTo(MaxErrors, category, severity)

\* handleError: the handler of the current strategy ends, with a result
\* (ok) or by throwing; the error is marked resolved and the result
\* returned, or the error is queued for retry and the next strategy tried
HandlerDone(ok) ==
    /\ handling.pc = "handler"
    /\ LET strategy == StrategyNamed(handling.strategies[handling.idx])
           invoked == Append(handling.invoked, strategy.name)
           errorInfo == InfoOf(errorLog, handling.id)
       IN /\ ~MayThrow(strategy.name) => ok
          /\ IF ok
             THEN /\ errorLog' = updateErrorInfo(errorLog, [errorInfo EXCEPT !.resolved = TRUE])
                  /\ savedLog' = saveErrorLog(errorLog')
                  /\ handled' = [NoResult EXCEPT !.id = errorInfo.id, !.resolved = TRUE,
                                                 !.strategy = strategy.name,
                                                 !.invoked = invoked]
                  /\ handling' = IdleHandling
                  /\ UNCHANGED retryQueue
             ELSE LET queued == strategy.canRetry /\ errorInfo.retryCount < strategy.maxRetries
                      counted == IF queued THEN [errorInfo EXCEPT !.retryCount = @ + 1]
                                 ELSE errorInfo
                  IN /\ errorLog' = updateErrorInfo(errorLog, counted)
                     /\ UNCHANGED savedLog
                     /\ retryQueue' = IF queued
                                      THEN RetrySet(retryQueue, counted.id, strategy.name)
                                      ELSE retryQueue
                     /\ IF handling.idx = Len(handling.strategies)
                        THEN /\ handled' = [escalateError(counted) EXCEPT !.invoked = invoked]
                             /\ handling' = IdleHandling
                        ELSE /\ handling' = [handling EXCEPT !.idx = @ + 1,
                                                             !.invoked = invoked]
                             /\ UNCHANGED handled
    /\ UNCHANGED retryLoops
    /\ UNCHANGED ErrFrame

\* processRetryQueue: the handler called for the current entry of the loop's
\* snapshot ends; on success the error is marked resolved and leaves the
\* queue, on failure it leaves the queue if retryCount has reached maxRetries
RetryHandlerDone(l, ok) ==
    /\ retryLoops[l].active
    /\ LET e == retryLoops[l].entries[retryLoops[l].idx]
           error == InfoOf(errorLog, e.id)
       IN /\ ~MayThrow(e.strategy) => ok
          /\ IF ok
             THEN /\ errorLog' = updateErrorInfo(errorLog, [error EXCEPT !.resolved = TRUE])
                  /\ savedLog' = saveErrorLog(errorLog')
                  /\ retryQueue' = RetryDelete(retryQueue, e.id)
             ELSE /\ retryQueue' = IF error.retryCount >= error.maxRetries
                                   THEN RetryDelete(retryQueue, e.id)
                                   ELSE retryQueue
                  /\ UNCHANGED <<errorLog, savedLog>>
    /\ retryLoops' = [retryLoops EXCEPT ![l] =
                        IF retryLoops[l].idx = Len(retryLoops[l].entries) THEN IdleLoop
                        ELSE [retryLoops[l] EXCEPT !.idx = @ + 1]]
    /\ UNCHANGED <<handling, handled>>
    /\ UNCHANGED ErrFrame

\* errors of every category and severity, connectivity, and the retries
\* executeRecoveryAction(actionName, errorId) of an error the log has, for an
\* action that generateRecoveryActions offers and that touches none of the
\* stores: retry_connection returns what its fetch found, force_resync true
ExecuteRecoveryAction(actionName, errorId, success) ==
    /\ LogHas(errorLog, errorId)
    /\ LET errorInfo == InfoOf(errorLog, errorId)
       IN /\ \E i \in DOMAIN generateRecoveryActions(errorInfo) :
                generateRecoveryActions(errorInfo)[i] = actionName
          /\ actionName \in {"retry_connection", "force_resync"}
          /\ actionName = "force_resync" => success
          /\ errorLog' = IF success
                         THEN updateErrorInfo(errorLog, [errorInfo EXCEPT !.resolved = TRUE])
                         ELSE errorLog
          /\ savedLog' = IF success THEN saveErrorLog(errorLog') ELSE savedLog
    /\ UNCHANGED <<retryQueue, handling, retryLoops, handled>>
    /\ UNCHANGED ErrFrame

NextErr ==
    \/ \E c \in ErrorCategories, v \in ErrorSeverities : HandleErrorCall(c, v)
    \/ \E ok \in BOOLEAN : HandlerDone(ok)
    \/ GoOnline
    \/ GoOffline
    \/ \E l \in LoopIds, ok \in BOOLEAN : RetryHandlerDone(l, ok)

SpecErr == Init /\ [][NextErr]_vars

\* the categories with a strategy whose handler can throw
RetriedCategories == {"network", "authentication", "encryption"}

\* the same for errors that can be queued for retry; connectivity keeps
\* changing and every handler call of a retry loop ends
NextRetry ==
    \/ \E c \in RetriedCategories : HandleErrorCall(c, "medium")
    \/ \E ok \in BOOLEAN : HandlerDone(ok)
    \/ GoOnline
    \/ GoOffline
    \/ \E l \in LoopIds, ok \in BOOLEAN : RetryHandlerDone(l, ok)

SpecRetry ==
    /\ Init /\ [][NextRetry]_vars
    /\ WF_vars(GoOnline) /\ WF_vars(GoOffline)
    /\ WF_vars(\E ok \in BOOLEAN : HandlerDone(ok))
    /\ \A l \in LoopIds : WF_vars(\E ok \in BOOLEAN : RetryHandlerDone(l, ok))

\* the offline change queue holds a change that can be applied, alone or
\* behind one that cannot be decrypted
InitChanges ==
    Constructed({"u1"},
                [autoSync : {FALSE}, syncInterval : {defaultSyncInterval}, conflictResolution : {"manual"}],
                {<<QueuedChange>>, <<CorruptChange, QueuedChange>>})

\* the steps of run r with those of processOfflineQueue's loop; the
\* sync_status select finds no single row, and with the owner's own session
\* and equal timestamps no syncDataType reaches its setData
ChangeStepOf(r) ==
    \/ SyncGetUserDone(r)
    \/ SyncSelectDone(r)
    \/ SyncApplyDone(r)
    \/ SyncMarkDone(r)
    \/ SyncFailDone(r)
    \/ \E k \in SyncTypes : \/ KindGetRemoteDone(r, k)
                               \/ KindGetTsDone(r, k, Epoch)

\* runs on request over a queue of offline changes, while the device loses
\* connectivity and the remote store comes and goes
NextChanges ==
    \/ PerformSyncRequest(NoUser)
    \/ \E r \in RunIds : ChangeStepOf(r)
    \/ GoOffline
    \/ RemoteToggle

SpecChanges == InitChanges /\ [][NextChanges]_vars

\* one owner, manual conflict resolution, no automatic runs
InitPush ==
    Constructed({"u1"},
                [autoSync : {FALSE}, syncInterval : {defaultSyncInterval}, conflictResolution : {"manual"}],
                {<<>>})

\* writes of one kind on this device, online and offline, the queue drain,
\* page reloads and runs on request; the remote store is up throughout
NextPush ==
    \/ \E v \in ValuesOf("u1") : SetDataCall(1, Edited, v, "u1")
    \/ SetDataRemoteDone(1)
    \/ GoOnline
    \/ GoOffline
    \/ \E d \in DrainIds : DrainAttemptDone(d)
    \/ Restart
    \/ PerformSyncRequest(NoUser)
    \/ \E r \in RunIds : RunStepOf(r)

SpecPush == InitPush /\ [][NextPush]_vars

\* timestamps in milliseconds around the threshold, and one that does not
\* parse
Stamps == {0, 1, 59999, 60000, 60001, 119999, 120000, InvalidDate}

\* both stores hold a value of the edited kind, and the kind's local
\* timestamp is any of Stamps, counted in milliseconds
InitStamps ==
    /\ session = "u1"
    /\ isOnline = TRUE
    /\ remoteUp = TRUE
    /\ auditUp = TRUE
    /\ now = 1
    /\ local \in {[k \in Kinds |-> IF k = Edited THEN v ELSE Null] : v \in ValuesOf("u1")}
    /\ remote \in {[u \in Owners |-> [k \in Kinds |->
                       IF u = "u1" /\ k = Edited THEN v ELSE Null]] : v \in ValuesOf("u1")}
    /\ syncQueue = <<>>
    /\ ops = [p \in Procs |-> IdleOp]
    /\ last = NoCall
    /\ drains = [d \in DrainIds |-> IdleDrain]
    /\ localTs \in {[k \in Kinds |-> IF k = Edited THEN t ELSE Epoch] : t \in Stamps}
    /\ offlineChanges = <<>>
    /\ syncSettings = [autoSync |-> FALSE, syncInterval |-> defaultSyncInterval, conflictResolution |-> "manual"]
    /\ syncStatus = "idle"
    /\ syncTimer = FALSE
    /\ orphanTimers = 0
    /\ pendingConflicts = [k \in SyncTypes |-> NoConflict]
    /\ runs = [r \in RunIds |-> IdleRun]
    /\ resolves = IdleResolve
    /\ errorLog = <<>>
    /\ savedLog = <<>>
    /\ retryQueue = <<>>
    /\ handling = IdleHandling
    /\ retryLoops = [l \in LoopIds |-> IdleLoop]
    /\ handled = NoResult

\* detectConflict applied to the two values of a kind, its local timestamp
\* and a remote timestamp, the conflict it returns being recorded
DetectStep(k, remoteTimestamp) ==
    /\ pendingConflicts' = [pendingConflicts EXCEPT ![k] =
           detectConflictIn(1, LocalGet(local, k, "u1"), SupabaseGet(remote, k, "u1"),
                            localTs[k], remoteTimestamp)]
    /\ UNCHANGED <<session, isOnline, remoteUp, auditUp, now, local, remote, syncQueue, ops, last, drains>>
    /\ UNCHANGED <<localTs, offlineChanges, syncSettings, syncStatus, syncTimer, orphanTimers, runs, resolves>>
    /\ UNCHANGED errVars

NextStamps == \E t \in Stamps : DetectStep(Edited, t)

SpecStamps == InitStamps /\ [][NextStamps]_vars

\* the audit_logs table starts or stops accepting inserts
AuditToggle ==
    /\ auditUp' = ~auditUp
    /\ UNCHANGED <<session, isOnline, remoteUp, now, local, remote, syncQueue, ops, last, drains>>
    /\ UNCHANGED <<syncVars, errVars>>

\* what a call of SupabaseStorageBackend leaves alone besides the tables
BackendFrame == <<session, isOnline, remoteUp, auditUp, now, local, syncQueue, ops, drains,
                  syncVars, errVars>>

\* SupabaseStorageBackend.get(key, userId), from call to return or throw
BackendGet(key, userId) ==
    LET out == SupabaseOutcome(userId)
        o == SyncOp("supabaseGet", key, Null, userId)
    IN /\ last' = IF out = "ok" THEN Returned(o, SupabaseGet(remote, key, userId), FALSE, "none")
                  ELSE Returned(o, Null, TRUE, out)
       /\ UNCHANGED remote
       /\ UNCHANGED BackendFrame

\* SupabaseStorageBackend.set(key, data, userId), from call to return or throw
BackendSet(key, data, userId) ==
    LET out == SupabaseOutcome(userId)
        o == SyncOp("supabaseSet", key, data, userId)
    IN /\ last' = IF out = "ok" THEN Returned(o, Null, FALSE, "none")
                  ELSE Returned(o, Null, TRUE, out)
       /\ remote' = IF out = "ok" THEN SupabaseSet(remote, key, data, userId) ELSE remote
       /\ UNCHANGED BackendFrame

\* SupabaseStorageBackend.remove(key, userId), from call to return or throw
BackendRemove(key, userId) ==
    LET out == SupabaseOutcome(userId)
        o == SyncOp("supabaseRemove", key, Null, userId)
    IN /\ last' = IF out = "ok" THEN Returned(o, Null, FALSE, "none")
                  ELSE Returned(o, Null, TRUE, out)
       /\ remote' = IF out = "ok" THEN SupabaseRemove(remote, key, userId) ELSE remote
       /\ UNCHANGED BackendFrame

\* any session, nothing stored
InitAudit ==
    Constructed(Owners \cup {NoUser},
                {[autoSync |-> FALSE, syncInterval |-> defaultSyncInterval, conflictResolution |-> "manual"]},
                {<<>>})

\* calls into the remote backend for one owner while the remote tables and
\* the audit table come and go
NextAudit ==
    \/ \E k \in Kinds : BackendGet(k, "u1")
    \/ \E k \in Kinds : \E v \in ValuesOf("u1") : BackendSet(k, v, "u1")
    \/ \E k \in Kinds : BackendRemove(k, "u1")
    \/ RemoteToggle
    \/ AuditToggle

SpecAudit == InitAudit /\ [][NextAudit]_vars

\* handleError calls explored beyond a full log
MaxOverflow == 3

\* a log of n errors handled one after the other, none with a strategy
FilledLog(n) == [i \in 1..n |-> createErrorInfo(i, "validation", "low")]

\* the services in a session in which the log has been filled to one below
\* its capacity, or to its capacity
InitLog ==
    /\ session = "u1"
    /\ isOnline = TRUE
    /\ remoteUp = TRUE
    /\ auditUp = TRUE
    /\ now = 1
    /\ local = [k \in Kinds |-> Null]
    /\ remote = [u \in Owners |-> [k \in Kinds |-> Null]]
    /\ syncQueue = <<>>
    /\ ops = [p \in Procs |-> IdleOp]
    /\ last = NoCall
    /\ drains = [d \in DrainIds |-> IdleDrain]
    /\ localTs = [k \in Kinds |-> Epoch]
    /\ offlineChanges = <<>>
    /\ syncSettings = [autoSync |-> FALSE, syncInterval |-> defaultSyncInterval, conflictResolution |-> "manual"]
    /\ syncStatus = "idle"
    /\ syncTimer = FALSE
    /\ orphanTimers = 0
    /\ pendingConflicts = [k \in SyncTypes |-> NoConflict]
    /\ runs = [r \in RunIds |-> IdleRun]
    /\ resolves = IdleResolve
    /\ errorLog \in {FilledLog(maxLogSize - 1), FilledLog(maxLogSize)}
    /\ savedLog = saveErrorLog(errorLog)
    /\ retryQueue = <<>>
    /\ handling = IdleHandling
    /\ retryLoops = [l \in LoopIds |-> IdleLoop]
    /\ handled = NoResult

\* errors of a category without strategies, of every severity, and page
\* reloads
NextLog ==
    \/ \E v \in ErrorSeverities : HandleErrorUpTo(maxLogSize + MaxOverflow, "validation", v)
    \/ Restart

SpecLog == InitLog /\ [][NextLog]_vars

\* one owner, online or offline
InitOverlap ==
    Constructed({"u1"},
                {[autoSync |-> FALSE, syncInterval |-> defaultSyncInterval, conflictResolution |-> "manual"]},
                {<<>>})

\* a first setData, and further ones that are issued while the first is in
\* flight, each settling at any later moment; the remote store comes and goes
NextOverlap ==
    \/ \E k \in Kinds : \E v \in ValuesOf("u1") :
          last.type = "none" /\ ops[2].type = "none" /\ SetDataCall(1, k, v, "u1")
    \/ \E k \in Kinds : \E v \in ValuesOf("u1") :
          ops[1].type = "set" /\ SetDataCall(2, k, v, "u1")
    \/ \E p \in Procs : SetDataRemoteDone(p)
    \/ RemoteToggle

SpecOverlap == InitOverlap /\ [][NextOverlap]_vars

\* reads of one kind by one call and writes of it by another, overlapping in
\* any way, while the remote store comes and goes
NextRace ==
    \/ GetDataCall(1, Edited, "u1", FALSE, Null)
    \/ GetDataRemoteDone(1)
    \/ \E v \in ValuesOf("u1") : SetDataCall(2, Edited, v, "u1")
    \/ SetDataRemoteDone(2)
    \/ RemoteToggle

SpecRace == InitOverlap /\ [][NextRace]_vars

\* writes, removals and reads of one kind by its owner, one call at a time,
\* while connectivity is lost and restored and the queue is drained
NextErase ==
    \/ \E v \in ValuesOf("u1") : SetDataCall(1, Edited, v, "u1")
    \/ SetDataRemoteDone(1)
    \/ RemoveDataCall(1, Edited, "u1")
    \/ RemoveDataRemoteDone(1)
    \/ GetDataCall(1, Edited, "u1", FALSE, Null)
    \/ GetDataRemoteDone(1)
    \/ GoOffline
    \/ GoOnline
    \/ \E d \in DrainIds : DrainAttemptDone(d)

SpecErase == InitOverlap /\ [][NextErase]_vars

\* everything SpecNet explores, and the calls that stop the timer and
\* update the settings
NextTimer ==
    \/ NextNet
    \/ StopAutoSync
    \/ \E settings \in PartialSettings : UpdateSyncSettings(settings)

SpecTimer == InitSync /\ [][NextTimer]_vars

\* errors of the categories that can be queued for retry or offer a
\* recovery action of their own, the recovery actions, and connectivity
NextRecover ==
    \/ \E c \in {"network", "sync"} : HandleErrorCall(c, "medium")
    \/ \E ok \in BOOLEAN : HandlerDone(ok)
    \/ \E actionName \in {"retry_connection", "force_resync"}, errorId \in 1..MaxErrors,
          success \in BOOLEAN : ExecuteRecoveryAction(actionName, errorId, success)
    \/ GoOnline
    \/ GoOffline
    \/ \E l \in LoopIds, ok \in BOOLEAN : RetryHandlerDone(l, ok)

SpecRecover == Init /\ [][NextRecover]_vars

\* ------------------------------------------------------------ properties
\* the pending entries of (userId, key)
EntriesOf(q, key, userId) == {i \in DOMAIN q : q[i].key = key /\ q[i].userId = userId}

\* the entry a drain loop is attempting
Current(d) == drains[d].entries[drains[d].idx]

OfflineSetData(p, k, v, u) == SetDataCall(p, k, v, u) /\ ~isOnline

\* a drain loop in flight still has (u1, k, v) ahead of it
Covered(k, v) ==
    \E d \in DrainIds : /\ drains[d].active
                        /\ \E i \in drains[d].idx..Len(drains[d].entries) :
                             LET e == drains[d].entries[i]
                             IN e.key = k /\ e.data = v /\ e.userId = "u1"

Accepting == remoteUp /\ session = "u1"

Delivered(k, v) == remote["u1"][k] = v /\ ~QueueHas(syncQueue, k, "u1")

\* C2: an offline setData(kind, V1, owner) returns with the local cache holding
\* V1 and exactly one pending entry for (owner, kind), carrying V1; the
\* connectivity-restored event starts a drain over every pending entry; an
\* attempt of the drain that the remote store accepts leaves the remote store
\* holding the entry's value and the entry no longer pending; and while the
\* remote store keeps accepting writes, an entry a drain has ahead of it is
\* eventually delivered.
C2_OfflineWriteDelivered ==
    /\ [][\A p \in Procs, k \in Kinds, u \in Writers : \A v \in ValuesOf(u) :
            OfflineSetData(p, k, v, u) =>
               /\ local'[k] = v
               /\ Cardinality(EntriesOf(syncQueue', k, u)) = 1
               /\ \A i \in EntriesOf(syncQueue', k, u) : syncQueue'[i].data = v]_vars
    /\ [][(GoOnline /\ Len(syncQueue) > 0) =>
            \E d \in DrainIds : /\ ~drains[d].active /\ drains'[d].active
                                /\ drains'[d].entries = syncQueue
                                /\ drains'[d].idx = 1]_vars
    /\ [][\A d \in DrainIds :
            (DrainAttemptDone(d) /\ SupabaseOutcome(Current(d).userId) = "ok") =>
               /\ remote'[Current(d).userId][Current(d).key] = Current(d).data
               /\ ~QueueHas(syncQueue', Current(d).key, Current(d).userId)]_vars
    /\ \A k \in Kinds : \A v \in ValuesOf("u1") :
         (Covered(k, v) /\ Accepting) ~> (~Accepting \/ Delivered(k, v))

\* an offline write was the last call to return, and its value has since been
\* delivered: the remote store holds it and no entry for it is pending
C2_Witness ==
    /\ last.type = "set" /\ last.err = "offline"
    /\ remote[last.userId][last.key] = last.data
    /\ ~QueueHas(syncQueue, last.key, last.userId)
    /\ \A p \in Procs : ops[p].type = "none"

\* C3: for one owner, pending entries are attempted in queuedAt order, and no
\* attempt on a later entry is in flight together with an attempt on an
\* earlier one.
C3_DrainInQueuedAtOrder ==
    /\ \A d \in DrainIds : drains[d].active =>
         \A i, j \in DOMAIN drains[d].entries :
            (i < j /\ drains[d].entries[i].userId = drains[d].entries[j].userId)
               => drains[d].entries[i].timestamp <= drains[d].entries[j].timestamp
    /\ \A d1, d2 \in DrainIds :
         (drains[d1].active /\ drains[d2].active /\ Current(d1).userId = Current(d2).userId)
            => Current(d1).timestamp = Current(d2).timestamp

\* C4: a setData whose ownerId is not the session's identity raises and leaves
\* the local cache, the remote store and the queue as they were.
C4_MismatchFailsFast ==
    [][\A p \in Procs, k \in Kinds, u \in Writers : \A v \in ValuesOf(u) :
          (\/ OfflineSetData(p, k, v, u) /\ u # session
           \/ SetDataRemoteDone(p) /\ ops[p].userId # session)
             => /\ last'.raised
                /\ local' = local /\ remote' = remote /\ syncQueue' = syncQueue]_vars

\* C5: getData and getDataSafe called for an owner return only values written
\* for that owner (or the caller's own default).
C5_OwnerIsolation ==
    (last.type \in {"get", "getSafe"} /\ ~last.raised /\ last.res # Null)
       => (last.res \in ValuesOf(last.userId) \/ (last.type = "getSafe" /\ last.res = last.data))

\* C6: a getData whose remote attempt fails with an identity violation (the
\* session user differs from the ownerId, or the ownerId is invalid) raises
\* and returns no value, cached or default; so does getDataSafe.
C6_IdentityViolationRaises ==
    (last.type \in {"get", "getSafe"} /\ last.err \in {"mismatch", "invalid"})
       => (last.raised /\ last.res = Null)

\* getDataSafe raised on a session mismatch although the local cache holds a
\* value for the kind
C6_Witness ==
    /\ last.type = "getSafe" /\ last.err = "mismatch" /\ last.raised
    /\ local[last.key] # Null

C8_FailedWriteIsQueued ==
    [][\A p \in Procs :
          (SetDataRemoteDone(p) /\ SupabaseOutcome(ops[p].userId) # "ok") =>
             /\ ~last'.raised /\ last'.type = "set"
             /\ local'[ops[p].key] = ops[p].data
             /\ Cardinality(EntriesOf(syncQueue', ops[p].key, ops[p].userId)) = 1
             /\ \A i \in EntriesOf(syncQueue', ops[p].key, ops[p].userId) :
                  syncQueue'[i].data = ops[p].data]_vars

\* the last call to return was an online setData whose remote write failed
\* while an entry for its key was already pending
C8_Witness ==
    /\ last.type = "set" /\ last.err \in {"network", "mismatch"} /\ ~last.raised
    /\ local[last.key] = last.data
    /\ \E i \in EntriesOf(syncQueue, last.key, last.userId) : syncQueue[i].data = last.data
    /\ Len(syncQueue) = 2

\* C9: the pending entries outlive a restart of the process.
C9_QueueSurvivesRestart == [][Restart => syncQueue' = syncQueue]_vars
InFlight == InFlightRuns

\* C1: at most one performSync run is in flight at any moment.
C1_SingleFlight == Cardinality(InFlight) <= 1

\* step of run r in which performSync returns or throws
RunEnds(r) == runs[r].pc # "idle" /\ runs'[r].pc = "idle"

\* run r has found a conflict that the policy leaves unresolved: a kind whose
\* local and remote records both exist and differ, under the manual policy
Unresolved(r) ==
    /\ runs[r].pc = "types"
    /\ syncSettings.conflictResolution = "manual"
    /\ \E k \in SyncTypes : LET kr == runs[r].kinds[k]
                            IN \/ kr.conflict
                               \/ /\ kr.pc = "getTs"
                                  /\ kr.localData # Null /\ kr.remoteData # Null
                                  /\ kr.localData # kr.remoteData

\* the awaited calls a run may still have ahead of it
Ahead(run) ==
    CASE run.pc = "getUser" -> 6
      [] run.pc = "select" -> 5
      [] run.pc = "types" ->
            IF \E k \in SyncTypes : run.kinds[k].pc = "getRemote" THEN 4
            ELSE IF \E k \in SyncTypes : run.kinds[k].pc = "getTs" THEN 3
            ELSE IF \E k \in SyncTypes : run.kinds[k].pc = "setData" THEN 2
            ELSE 1
      [] OTHER -> 0

\* C10: a performSync run that passed the entry guards ends with the status
\* conflict if it found a conflict it left unresolved, with the status idle if
\* it found none, and with the status error and the exception raised to the
\* caller if it threw; the status is syncing only while a run is in flight;
\* and a run in flight never hangs: the call it awaits can always settle, and
\* each settling leaves it fewer calls ahead.
C10_RunEndsInOutcome ==
    /\ [][\A r \in RunIds : RunEnds(r) =>
            /\ last'.type = "sync"
            /\ \/ /\ Unresolved(r)
                  /\ syncStatus' = "conflict" /\ ~last'.raised /\ last'.res = "conflict"
               \/ /\ runs[r].pc = "types" /\ ~Unresolved(r)
                  /\ syncStatus' = "idle" /\ ~last'.raised /\ last'.res = "idle"
               \/ /\ runs[r].pc = "getUser"
                  /\ syncStatus' = "error" /\ last'.raised]_vars
    /\ [](syncStatus = "syncing" => InFlight # {})
    /\ [](\A r \in InFlight : ENABLED RunStepOf(r))
    /\ [][\A r \in RunIds : RunStepOf(r) => Ahead(runs'[r]) < Ahead(runs[r])]_vars

\* a run has ended in conflict, and a run started after it is in flight
C10_Witness ==
    /\ \E k \in SyncTypes : pendingConflicts[k].present
    /\ last.type = "sync" /\ last.res = "conflict"
    /\ syncStatus = "syncing"
    /\ InFlight # {}

\* C11: the connectivity-lost event leaves the autoSync setting as it was, and
\* a connectivity-restored event that finds autoSync enabled has a sync run
\* in flight when it returns; so a run starts on every reconnection that
\* follows a drop with autoSync enabled.
C11_SyncOnReconnect ==
    /\ [][GoOffline => syncSettings'.autoSync = syncSettings.autoSync]_vars
    /\ [][(GoOnline /\ syncSettings.autoSync) => InFlight' # {}]_vars

\* syncDataType(k) of run r has read a local and a remote record that both
\* exist and differ
Differing(r, k) ==
    /\ runs[r].pc = "types"
    /\ runs[r].kinds[k].pc = "getTs"
    /\ runs[r].kinds[k].localData # Null
    /\ runs[r].kinds[k].remoteData # Null
    /\ runs[r].kinds[k].localData # runs[r].kinds[k].remoteData

\* the step hands v to setData for kind k of run r: the write is in flight,
\* or, offline, already in the local cache and queued
Applies(r, k, v) ==
    IF isOnline
    THEN runs'[r].kinds[k].pc = "setData" /\ runs'[r].kinds[k].data = v
    ELSE local'[k] = v /\ \E i \in EntriesOf(syncQueue', k, runs[r].userId) :
                             syncQueue'[i].data = v

\* C12: under the latest_timestamp policy, a run that finds differing local
\* and remote records with timestamps T_l and T_r applies the local value
\* when T_l >= T_r and the remote value otherwise.
C12_LatestTimestampWins ==
    [][\A r \in RunIds, k \in SyncTypes, t \in Epoch..MaxClock :
          (/\ KindGetTsDone(r, k, t)
           /\ Differing(r, k)
           /\ syncSettings.conflictResolution = "latest_timestamp")
             => Applies(r, k, IF runs[r].kinds[k].localTimestamp >= t
                              THEN runs[r].kinds[k].localData
                              ELSE runs[r].kinds[k].remoteData)]_vars

\* under latest_timestamp the local value is being applied on an exact tie of
\* two timestamps later than the epoch
C12_Witness ==
    /\ syncSettings.conflictResolution = "latest_timestamp"
    /\ \E r \in RunIds, k \in SyncTypes :
         /\ runs[r].pc = "types" /\ runs[r].kinds[k].pc = "setData"
         /\ runs[r].kinds[k].localTimestamp = runs[r].kinds[k].remoteTimestamp
         /\ runs[r].kinds[k].localTimestamp > Epoch
         /\ runs[r].kinds[k].localData # runs[r].kinds[k].remoteData
         /\ runs[r].kinds[k].remoteData # Null
         /\ runs[r].kinds[k].data = runs[r].kinds[k].localData

\* syncDataType(k) of run r awaits the setData that applies the winner of a
\* conflict
Resolving(r, k) ==
    /\ runs[r].pc = "types"
    /\ runs[r].kinds[k].pc = "setData"
    /\ runs[r].kinds[k].localData # Null
    /\ runs[r].kinds[k].remoteData # Null
    /\ runs[r].kinds[k].localData # runs[r].kinds[k].remoteData

\* C13: under an automatic policy, when the run ends after applying the
\* winner of a conflict, either the local cache and the remote store both
\* hold the winning value, or the conflict is pending.
C13_ResolvedInBothStores ==
    [][\A r \in RunIds, k \in SyncTypes :
          (KindSetDone(r, k) /\ Resolving(r, k) /\ RunEnds(r))
             => \/ /\ local'[k] = runs[r].kinds[k].data
                   /\ remote'[runs[r].userId][k] = runs[r].kinds[k].data
                \/ pendingConflicts'[k].present]_vars

\* C14: a performSync that returns right after another one has returned,
\* with no write in between, reports no conflict and a totalSynced of 0.
C14_SecondRunFindsNothing ==
    [][\A r \in RunIds :
          (RunEnds(r) /\ last.type = "sync" /\ ~last.raised /\ ~last'.raised)
             => (last'.res # "conflict" /\ last'.totalSynced = 0)]_vars

\* a resolveConflictManually call returns true in this step
ResolvedManually ==
    /\ resolves.pc # "idle"
    /\ resolves'.pc = "idle"
    /\ last'.type = "resolve"
    /\ last'.res = "true"

\* C15: a resolveConflictManually that returns true has put the chosen value
\* into the local cache and the remote store, has removed that kind and no
\* other from the pending conflicts, and has set the status to idle exactly
\* when no conflict is left pending.
C15_ManualResolutionApplied ==
    [][ResolvedManually =>
         LET k == resolves.key
             v == last'.data
             u == last'.userId
         IN /\ local'[k] = v
            /\ remote'[u][k] = v
            /\ ~pendingConflicts'[k].present
            /\ \A j \in SyncTypes \ {k} : pendingConflicts'[j] = pendingConflicts[j]
            /\ IF \A j \in SyncTypes : ~pendingConflicts'[j].present
               THEN syncStatus' = "idle"
               ELSE syncStatus' = syncStatus]_vars

\* a resolveConflictManually(kind, merge, mergedData) call returns in this step
MergeReturns ==
    /\ resolves.pc # "idle"
    /\ resolves'.pc = "idle"
    /\ resolves.resolution = "merge"

\* C16: a merge resolution by a signed-in user applies the merged value
\* whenever the caller supplied one, whatever the value; when none was
\* supplied it fails and leaves the pending conflicts, the status and both
\* stores as they were.
C16_MergeAppliesSuppliedValue ==
    [][(MergeReturns /\ GetUser # NoUser) =>
         LET k == resolves.key
             m == resolves.data
         IN IF m # Null
            THEN /\ last'.res = "true"
                 /\ local'[k] = m
                 /\ ~pendingConflicts'[k].present
            ELSE /\ last'.res = "false"
                 /\ UNCHANGED <<pendingConflicts, syncStatus, local, remote>>]_vars

\* getData(o.key, o.userId) yields no value: the remote store has none for
\* the owner or cannot be reached, and the local cache has none
NoValue(o) ==
    /\ SupabaseOutcome(o.userId) = "ok" => SupabaseGet(remote, o.key, o.userId) = Null
    /\ LocalGet(local, o.key, o.userId) = Null

ItemsOf(l) == {l[i] : i \in DOMAIN l}

\* the first position of x in l
FirstPos(l, x) == CHOOSE i \in DOMAIN l : l[i] = x /\ \A j \in 1..(i - 1) : l[j] # x

\* res is what the claim asks for, for a default list and a stored list
UnionDefaultFirst(defaultValue, stored, res) ==
    IF stored = <<>> THEN res = defaultValue
    ELSE /\ ItemsOf(res) = ItemsOf(defaultValue) \cup ItemsOf(stored)
         /\ \A i, j \in DOMAIN res : res[i] = res[j] => i = j
         /\ \A i, j \in DOMAIN res :
              i < j => FirstPos(defaultValue \o stored, res[i])
                         < FirstPos(defaultValue \o stored, res[j])

\* the list that the getData inside the call of process p yields
StoredSkills(p) ==
    IF SupabaseOutcome(ops[p].userId) = "ok"
    THEN SupabaseGet(remote, SkillsKey, ops[p].userId)
    ELSE LocalGet(local, SkillsKey, ops[p].userId)

\* C18: getDataSafe for the skill list returns the default list when the
\* stored list is empty; otherwise it returns every item of the default and
\* of the stored list exactly once, the default's items first in their
\* order, then the stored items that the default lacks in theirs.
C18_SkillListUnion ==
    [][/\ GetSkillsRemoteDone(1)
          => UnionDefaultFirst(ops[1].data, StoredSkills(1), last'.res)
       /\ \A dv \in SkillLists :
            (~isOnline /\ GetSkillsCall(1, "u1", dv))
               => UnionDefaultFirst(dv, local[SkillsKey], last'.res)]_vars

\* a read with default <<a, b>> of the stored list <<b, c>> returned <<a, b, c>>
C18_Witness ==
    /\ last.type = "getSafe" /\ last.key = SkillsKey
    /\ last.data = <<"a", "b">>
    /\ local[SkillsKey] = <<"b", "c">>
    /\ last.res = <<"a", "b", "c">>

\* C19: removeData clears the kind in the local cache in its first step; it
\* does not raise when the remote delete fails; and a getData issued while
\* offline right after a removeData of the kind has returned yields null.
C19_RemoveIsLocalAndSilent ==
    [][/\ \A k \in Kinds, u \in Writers :
            RemoveDataCall(1, k, u) => local'[k] = Null
       /\ RemoveDataRemoteDone(1) => ~last'.raised
       /\ \A k \in Kinds, u \in Writers :
            (/\ ~isOnline
             /\ last.type = "remove" /\ last.key = k
             /\ GetDataCall(1, k, u, FALSE, Null))
               => (~last'.raised /\ last'.res = Null)]_vars

\* a removeData returned without raising after its remote delete had failed:
\* the local cache holds nothing for the kind, the remote store still does
C19_Witness ==
    /\ last.type = "remove" /\ last.err = "network" /\ ~last.raised
    /\ local[last.key] = Null
    /\ remote[last.userId][last.key] # Null

\* C20: while offline, a getData(kind, owner) issued once a
\* setData(kind, value, owner) has returned, with no other call in between,
\* returns the value written.
C20_OfflineReadYourWrite ==
    [][\A k \in Kinds, u \in Owners :
          (/\ ~isOnline
           /\ last.type = "set" /\ last.key = k /\ last.userId = u
           /\ GetDataCall(1, k, u, FALSE, Null))
             => (~last'.raised /\ last'.res = last.data)]_vars

\* an offline getData returned a value that was written while offline and has
\* not reached the remote store
C20_Witness ==
    /\ last.type = "get" /\ last.err = "offline" /\ ~last.raised
    /\ last.res \in ValuesOf(last.userId)
    /\ QueueHas(syncQueue, last.key, last.userId)
    /\ remote[last.userId][last.key] # last.res

\* the error with this id is waiting in the retry queue
Queued(id) == RetryHas(retryQueue, id)

\* C21: an error leaves the retry queue once its retries have failed
\* maxRetries times, and stays in the log: as connectivity keeps coming
\* back, every queued error eventually leaves the retry queue.
C21_RetriesBounded ==
    /\ [][\A id \in 1..MaxErrors : LogHas(errorLog, id) => LogHas(errorLog', id)]_vars
    /\ \A id \in 1..MaxErrors : Queued(id) ~> ~Queued(id)

\* a handleError call has returned after no strategy resolved the error
Escalated == handled.id # 0 /\ ~handled.resolved

\* result.severity: the object that escalateError builds has no such property
SeverityProperty(result) ==
    IF "severity" \in DOMAIN result THEN result.severity ELSE "undefined"

\* the severity that the form of an escalation result stands for
SeverityShown(result) ==
    CASE result.critical -> "critical"
      [] result.canRetry -> "high"
      [] result.silent /\ result.message -> "medium"
      [] result.silent /\ ~result.message -> "low"
      [] OTHER -> "none"

\* C22 as claimed: a handleError that no strategy resolved returns, without
\* raising, a result whose severity is the severity passed in.
C22_ResultSeverityMatches ==
    Escalated =>
       /\ ~handled.raised /\ handled.error
       /\ SeverityProperty(handled) = InfoOf(errorLog, handled.id).severity

\* C22 as amended: a handleError that no strategy resolved returns, without
\* raising, an error result whose form is fixed by the severity passed in
\* (critical flag and recovery actions for critical, canRetry for high,
\* silent with the message for medium, silent without it for low); the
\* severity itself is on the logged ErrorRecord, not on the result.
C22_ResultFormMatchesSeverity ==
    Escalated =>
       /\ ~handled.raised /\ handled.error
       /\ SeverityShown(handled) = InfoOf(errorLog, handled.id).severity
       /\ SeverityProperty(handled) = "undefined"

\* a validation error of high severity was escalated
C22_Witness ==
    /\ Escalated
    /\ InfoOf(errorLog, handled.id).category = "validation"
    /\ InfoOf(errorLog, handled.id).severity = "high"
    /\ handled.canRetry

\* C23: whatever the category, a handleError call with severity critical
\* returns a result that carries the recovery actions of that category.
C23_CriticalOffersRecovery ==
    (handled.id # 0 /\ InfoOf(errorLog, handled.id).severity = "critical")
       => /\ handled.recoveryActions # <<>>
          /\ handled.recoveryActions = generateRecoveryActions(InfoOf(errorLog, handled.id))

\* the strategies registered for a category
Registered(category) ==
    {fallbackStrategies[i] : i \in {j \in DOMAIN fallbackStrategies :
                                      fallbackStrategies[j].category = category}}

\* C29: the handlers that a returned handleError call invoked are those of
\* the strategies registered for the error's category, one after the other
\* by ascending priority with none skipped; if one succeeded it is the last
\* one invoked, the ErrorRecord is marked resolved and that handler's result
\* is what the call returned; otherwise every one of them was invoked.
C29_StrategiesInPriorityOrder ==
    handled.id # 0 =>
       LET errorInfo == InfoOf(errorLog, handled.id)
           invoked == handled.invoked
       IN /\ \A i \in DOMAIN invoked :
               /\ StrategyNamed(invoked[i]) \in Registered(errorInfo.category)
               /\ Cardinality({y \in Registered(errorInfo.category) :
                                 y.priority < StrategyNamed(invoked[i]).priority}) = i - 1
          /\ IF handled.resolved
             THEN /\ invoked # <<>>
                  /\ handled.strategy = invoked[Len(invoked)]
                  /\ errorInfo.resolved
             ELSE Len(invoked) = Cardinality(Registered(errorInfo.category))

\* a network error was resolved by offline_mode after network_retry had
\* thrown
C29_Witness ==
    /\ handled.id # 0 /\ handled.resolved
    /\ handled.invoked = <<"network_retry", "offline_mode">>
    /\ handled.strategy = "offline_mode"

\* C24: a drain of the offline change queue marks a change processed only
\* if its remote dispatch succeeded, that is, only if the remote store holds
\* the change's data when the mark is made
C24_OnlyDispatchedMarked ==
    [][\A i \in DOMAIN offlineChanges :
          (~offlineChanges[i].processed /\ offlineChanges'[i].processed)
          => SupabaseGet(remote, offlineChanges[i].key, offlineChanges[i].userId)
               = offlineChanges[i].data]_vars

\* run r returns from performSync in this step without raising
RunCompletes(r) ==
    /\ runs[r].pc = "types"
    /\ runs'[r].pc = "idle"
    /\ last'.type = "sync" /\ ~last'.raised

\* C25: after every completed sync run the pending conflicts are exactly the
\* conflicts that run left unresolved, so a run that finds none ends with
\* status idle and no pending conflict
C25_PendingAreThisRunsConflicts ==
    [][\A r \in RunIds :
          RunCompletes(r) =>
             /\ Cardinality({k \in SyncTypes : pendingConflicts'[k].present})
                  = Cardinality(SyncTypes) - last'.totalSynced
             /\ (syncStatus' = "idle" => \A k \in SyncTypes : ~pendingConflicts'[k].present)]_vars

\* C26: a run that read a local value of a tracked kind while the remote
\* store holds none, and that ends online with the remote store accepting
\* the owner's writes and no other write in flight or queued, leaves the
\* remote store holding that value
C26_LocalOnlyIsPushed ==
    [][\A r \in RunIds : \A k \in SyncTypes :
          (/\ RunCompletes(r)
           /\ isOnline
           /\ runs[r].kinds[k].localData # Null
           /\ SupabaseGet(remote, k, runs[r].userId) = Null
           /\ SupabaseOutcome(runs[r].userId) = "ok"
           /\ \A p \in Procs : ops[p] = IdleOp
           /\ \A d \in DrainIds : ~drains[d].active)
          => SupabaseGet(remote', k, runs[r].userId) = runs[r].kinds[k].localData]_vars

\* run r is inside syncDataType(k) past getRemoteData, the values it read
\* are present and equal, and both stores still hold that value
SameInBoth(r, k) ==
    /\ runs[r].pc = "types"
    /\ runs[r].kinds[k].localData # Null
    /\ runs[r].kinds[k].remoteData = runs[r].kinds[k].localData
    /\ LocalGet(local, k, runs[r].userId) = runs[r].kinds[k].localData
    /\ SupabaseGet(remote, k, runs[r].userId) = runs[r].kinds[k].localData

\* the local cache value, the remote value and the timestamp entry of kind k
\* of user u stay as they are
KindUntouched(k, u) ==
    /\ LocalGet(local', k, u) = LocalGet(local, k, u)
    /\ SupabaseGet(remote', k, u) = SupabaseGet(remote, k, u)
    /\ localTs'[k] = localTs[k]

\* C27 as stated: for a kind whose local and remote values are both present
\* and equal, no step of syncDataType writes the local cache value, the
\* remote store or the kind's timestamp entry
C27_EqualValuesNoOp ==
    [][\A r \in RunIds : \A k \in SyncTypes :
          (/\ SameInBoth(r, k)
           /\ \/ \E t \in Epoch..MaxClock : KindGetTsDone(r, k, t)
              \/ KindSetDone(r, k))
          => KindUntouched(k, runs[r].userId)]_vars

\* C27, amended: for such a kind the run changes neither the local cache
\* value nor the remote value; with equal timestamps it returns at once and
\* leaves the timestamp entry alone, with an older local timestamp it stores
\* the remote one, and it pushes only with a newer local timestamp
C27_EqualValuesKeepValues ==
    [][\A r \in RunIds : \A k \in SyncTypes :
          SameInBoth(r, k) =>
             /\ \A t \in Epoch..MaxClock :
                   KindGetTsDone(r, k, t) =>
                      /\ LocalGet(local', k, runs[r].userId) = LocalGet(local, k, runs[r].userId)
                      /\ SupabaseGet(remote', k, runs[r].userId)
                           = SupabaseGet(remote, k, runs[r].userId)
                      /\ t = runs[r].kinds[k].localTimestamp
                           => KindUntouched(k, runs[r].userId) /\ runs'[r].kinds[k].pc # "setData"
                      /\ t > runs[r].kinds[k].localTimestamp => localTs'[k] = t
             /\ KindSetDone(r, k) =>
                   /\ LocalGet(local', k, runs[r].userId) = LocalGet(local, k, runs[r].userId)
                   /\ SupabaseGet(remote', k, runs[r].userId)
                        = SupabaseGet(remote, k, runs[r].userId)
                   /\ runs[r].kinds[k].localTimestamp > runs[r].kinds[k].remoteTimestamp]_vars

\* a push of a value that both stores already hold is in flight
C27_Witness ==
    \E r \in RunIds : \E k \in SyncTypes :
        /\ SameInBoth(r, k)
        /\ runs[r].kinds[k].pc = "setData"
        /\ runs[r].kinds[k].localTimestamp > runs[r].kinds[k].remoteTimestamp

C30_SixtySecondWindow ==
    \A k \in SyncTypes :
        pendingConflicts[k].present =>
            LET lt == pendingConflicts[k].localTimestamp
                rt == pendingConflicts[k].remoteTimestamp
                near == /\ lt \in Nat /\ rt \in Nat
                        /\ lt - rt < 60 * 1000
                        /\ rt - lt < 60 * 1000
            IN /\ pendingConflicts[k].localData # pendingConflicts[k].remoteData
               /\ pendingConflicts[k].conflictType = (IF near THEN "concurrent_edit" ELSE "update")

\* a conflict whose timestamps are exactly 60 seconds apart is an update
C30_Witness ==
    \E k \in SyncTypes :
        /\ pendingConflicts[k].present
        /\ pendingConflicts[k].localTimestamp - pendingConflicts[k].remoteTimestamp = 60 * 1000
        /\ pendingConflicts[k].remoteTimestamp # InvalidDate
        /\ pendingConflicts[k].conflictType = "update"

\* the outcome of a remote call for userId when the audit sink works
WorkingSinkOutcome(userId) ==
    IF session # userId THEN "mismatch" ELSE IF remoteUp THEN "ok" ELSE "network"

\* C31: whether or not the audit sink works, a remote get, set or remove
\* returns or fails, and changes the remote store, exactly as it does with a
\* working audit sink
C31_AuditFailureIsHarmless ==
    [][\A k \in Kinds : \A u \in Owners :
          LET out == WorkingSinkOutcome(u)
          IN /\ BackendGet(k, u) =>
                   /\ last'.raised = (out # "ok")
                   /\ last'.err = (IF out = "ok" THEN "none" ELSE out)
                   /\ out = "ok" => last'.res = SupabaseGet(remote, k, u)
             /\ (\E v \in Values : BackendSet(k, v, u) /\ last'.data = v) =>
                   /\ last'.raised = (out # "ok")
                   /\ last'.err = (IF out = "ok" THEN "none" ELSE out)
                   /\ remote' = IF out = "ok" THEN SupabaseSet(remote, k, last'.data, u)
                                ELSE remote
             /\ BackendRemove(k, u) =>
                   /\ last'.raised = (out # "ok")
                   /\ last'.err = (IF out = "ok" THEN "none" ELSE out)
                   /\ remote' = IF out = "ok" THEN SupabaseRemove(remote, k, u) ELSE remote]_vars

\* a remote set has succeeded while the audit sink was failing
C31_Witness ==
    /\ ~auditUp
    /\ last.type = "supabaseSet" /\ ~last.raised
    /\ SupabaseGet(remote, last.key, last.userId) = last.data

\* C32: the error log never holds more than 1000 records and the saved log
\* never more than 100, the saved records being the most recent ones of the
\* log; and handleError adds its record, a record leaving the log only if
\* it is older than every record that stays
C32_LogsAreBounded ==
    /\ [](Len(errorLog) <= 1000)
    /\ [](Len(savedLog) <= 100)
    /\ [](handling.pc = "idle" =>
            /\ Len(savedLog) = (IF Len(errorLog) < 100 THEN Len(errorLog) ELSE 100)
            /\ \A i \in DOMAIN savedLog :
                  savedLog[i].id = errorLog[Len(errorLog) - Len(savedLog) + i].id)
    /\ [][(\E v \in ErrorSeverities : HandleErrorUpTo(maxLogSize + MaxOverflow, "validation", v)) =>
             /\ LogHas(errorLog', generateErrorId(errorLog))
             /\ \A i \in DOMAIN errorLog :
                   ~LogHas(errorLog', errorLog[i].id) =>
                      \A j \in DOMAIN errorLog' : errorLog[i].id < errorLog'[j].id]_vars

\* the full log has been rotated: its oldest record is gone and the newest
\* hundred are saved
C32_Witness ==
    /\ Len(errorLog) = maxLogSize
    /\ errorLog[1].id > 1
    /\ Len(savedLog) = savedLogSize
    /\ savedLog[savedLogSize].id = errorLog[maxLogSize].id

\* the entry of the sync queue for (userId, key)
QueuedFor(q, key, userId) == q[CHOOSE i \in DOMAIN q : q[i].key = key /\ q[i].userId = userId]

\* C33: when a drain ends with the attempt of an entry for which setData
\* has queued a newer value in the meantime, that newer value is then held
\* by the remote store or still carried by a pending entry
C33_NewerQueuedValueSurvives ==
    [][\A d \in DrainIds :
          (/\ DrainAttemptDone(d)
           /\ ~drains'[d].active
           /\ LET e == drains[d].entries[drains[d].idx]
              IN /\ QueueHas(syncQueue, e.key, e.userId)
                 /\ QueuedFor(syncQueue, e.key, e.userId).timestamp > e.timestamp)
          => LET e == drains[d].entries[drains[d].idx]
                 newer == QueuedFor(syncQueue, e.key, e.userId)
             IN \/ SupabaseGet(remote', e.key, e.userId) = newer.data
                \/ /\ QueueHas(syncQueue', e.key, e.userId)
                   /\ QueuedFor(syncQueue', e.key, e.userId).data = newer.data]_vars

\* C34: when the first setData settles after a setData for the same kind
\* that was issued later and has already returned, both remote writes having
\* succeeded, the local cache and the remote store hold the value of the
\* later call
C34_LastIssuedWins ==
    [][(/\ SetDataRemoteDone(1)
        /\ ops[2].type = "none"
        /\ last.type = "set" /\ last.err = "ok"
        /\ last.key = ops[1].key /\ last.userId = ops[1].userId
        /\ SupabaseOutcome(ops[1].userId) = "ok")
       => /\ LocalGet(local', last.key, last.userId) = last.data
          /\ SupabaseGet(remote', last.key, last.userId) = last.data]_vars

\* C35: a getData that returns after setData(kind, V), the call that returned
\* last, leaves V in the local cache
C35_ReadKeepsWrittenValue ==
    [][\A p \in Procs :
          (/\ GetDataRemoteDone(p)
           /\ last.type = "set"
           /\ last.key = ops[p].key
           /\ LocalGet(local, last.key, last.userId) = last.data)
          => LocalGet(local', last.key, last.userId) = last.data]_vars

\* C36: a getData of a kind that returns after a removeData of that kind
\* made offline, no other call having returned in between, returns no value
C36_OfflineRemovalSticks ==
    [][\A p \in Procs :
          (/\ GetDataRemoteDone(p)
           /\ last.type = "remove" /\ last.err = "offline"
           /\ last.key = ops[p].key /\ last.userId = ops[p].userId)
          => last'.res = Null]_vars

\* C37: under the manual policy, when a run returns with a conflict for a
\* kind, the local cache holds the local value the run read for that kind,
\* and the step leaves the remote value as it is
C37_ConflictLeavesStores ==
    [][\A r \in RunIds : \A k \in SyncTypes :
          (/\ RunCompletes(r)
           /\ syncSettings.conflictResolution = "manual"
           /\ syncStatus' = "conflict"
           /\ pendingConflicts'[k].present
           /\ pendingConflicts'[k] # pendingConflicts[k])
          => /\ LocalGet(local', k, runs[r].userId) = pendingConflicts'[k].localData
             /\ SupabaseGet(remote', k, runs[r].userId) = SupabaseGet(remote, k, runs[r].userId)]_vars


\* the intervals that setInterval created and clearInterval has not cleared
ActiveTimers == (IF syncTimer THEN 1 ELSE 0) + orphanTimers

\* C38: at most one auto-sync interval is active at any time, and while
\* autoSync is off (stopAutoSync has returned and startAutoSync has not been
\* called since) no timer tick starts a synchronisation run
C38_OneTimerAndStopStops ==
    /\ [](ActiveTimers <= 1)
    /\ [][(SyncTimerTick /\ runs' # runs) => syncSettings.autoSync]_vars


\* C39: updateSyncSettings(s) leaves the settings equal to the previous ones
\* overridden by s, and when the resulting autoSync is true while the
\* browser is online the recurring timer is set
C39_UpdateOverridesNamedSettings ==
    [][\A settings \in PartialSettings :
          UpdateSyncSettings(settings)
          => /\ syncSettings' = Spread(syncSettings, settings)
             /\ (syncSettings'.autoSync /\ isOnline') => syncTimer']_vars


\* C40: no entry of the retry queue belongs to an ErrorRecord marked
\* resolved, and no handler call of processRetryQueue is made for one
C40_ResolvedNeverQueued ==
    /\ [](\A i \in DOMAIN retryQueue : ~InfoOf(errorLog, retryQueue[i].id).resolved)
    /\ [][\A l \in LoopIds, ok \in BOOLEAN :
             RetryHandlerDone(l, ok)
             => ~InfoOf(errorLog, retryLoops[l].entries[retryLoops[l].idx].id).resolved]_vars
====
